---- MODULE Spec2Model ----
(***************************************************************************)
(* Batch task orchestration of grok2api: the BatchTask progress record     *)
(* with its subscriber queues, the runBatch chunked executor and the       *)
(* event stream of createBatchEventStream (src/src/batch.ts;               *)
(* src/unnamed/part_000 holds the same code with a pluggable registry and  *)
(* a larger queue).                                                        *)
(*                                                                         *)
(* JavaScript runs one synchronous section at a time: an action below is   *)
(* one such section, from a call or the resumption after an await up to    *)
(* the next await or the return.                                           *)
(*                                                                         *)
(* runBatch is modelled with both options.task and options.shouldCancel    *)
(* given. shouldCancel is any predicate: each call of it may answer true   *)
(* or false (a predicate that always answers false is the absent one).     *)
(***************************************************************************)
EXTENDS Integers, Sequences, FiniteSets, TLC

(***************************************************************************)
(* Bounds of the model.                                                    *)
(***************************************************************************)
\* longest input collection handed to runBatch
MaxItems == 3
\* largest explicit batchSize option tried
MaxBatchSize == 2
\* subscriber handles ever created by attach()
MaxHandles == 1
\* calls of record / finish / failTask / finishCancelled made directly on a
\* task in the task-only specification
MaxCalls == 3
\* handles ever created on the task of the stream specification and of the
\* subscriber specification
MaxSubscribers == 2
\* tasks created through the registry
MaxTasks == 2
\* longest grpc-status trailer value, in characters
MaxLen == 3
\* frames in one response body
MaxFrames == 2

(***************************************************************************)
(* Program constants.                                                      *)
(***************************************************************************)
\* queue.length < 200 in attach()'s push
QueueCapacity == 200
\* options.batchSize ?? 50
DefaultBatchSize == 50
\* options.batchSize ?? 10 in batchEnableNsfw
NsfwBatchSize == 10

\* stands for JavaScript's undefined in string-valued fields
None == "undefined"

Max2(a, b) == IF a >= b THEN a ELSE b
Min2(a, b) == IF a <= b THEN a ELSE b

(***************************************************************************)
(* Input domains.                                                          *)
(***************************************************************************)
\* finish(result, warning?)
Results == {"r1"}
Warnings == {None, "w1"}
\* failTask(error)
FatalErrors == {"e1"}
\* messages of a failing per-item operation
WorkerErrors == {"boom"}

\* The input collections: n distinct key values, n = 0..MaxItems. The key of
\* the item at position p is p itself.
ItemLists == { [p \in 1..n |-> p] : n \in 0..MaxItems }

\* The input collections in which a key value may occur more than once: up
\* to MaxItems items over two key values
KeyValues == {1, 2}
DuplicateLists ==
  UNION { [1..n -> KeyValues] : n \in 0..MaxItems }

\* options.batchSize: absent, or an integer (zero and negatives included)
BatchSizeOptions ==
  {[given |-> FALSE, value |-> 0]}
    \cup {[given |-> TRUE, value |-> v] : v \in (0 - 1)..MaxBatchSize}

VARIABLES
  \* ---- BatchTask fields
  total, processed, ok, fail, status, cancelled, warning, result, error,
  finalEvent,
  queues,          \* this.queues: the attached handles, in attach order
  hq,              \* hq[h]: the queue array of handle h (it outlives detach)
  \* ---- runBatch call
  items,           \* the input collection
  optBatchSize,    \* options.batchSize
  rbPc,            \* "idle" (not called), "await" (in Promise.all), "done"
  i,               \* the loop variable of the chunk loop
  st,              \* st[p], item p's processOne: "pending" (not started),
                   \* "skipped" (returned at the cancellation test), "inflight"
                   \* (operation invoked), "fulfilled" | "rejected" (operation
                   \* settled that way, outcome stored and recorded)
  results,         \* the results Map: a function on the keys set so far
  \* ---- history (not program state)
  emitted,         \* every event handed to publish(), in order
  chunks,          \* every chunk handed to Promise.all, as <<first, last>>
  cancelObserved,  \* some cancellation check of runBatch came out true
  lateSettled,     \* the positions whose operation settled with
                   \* task.cancelled already true
  \* ---- the streams made by createBatchEventStream
  streams          \* streams[h], for the handle h a stream attached: its
                   \* state ("open", "closed" by controller.close(),
                   \* "cancelled" by its consumer), whether its interval
                   \* timer is set, and as history: out, the events enqueued
                   \* into the stream; taken, the events shifted off the
                   \* queue; startStatus, the task's status when it started

VARIABLES
  \* ---- the task registry
  TASKS,           \* the Map from task id to task object (a reference)
  heap,            \* heap[r]: the BatchTask object behind reference r
  lookup,          \* the last getTask call: its argument and what it returned
  deleted          \* history: the deleteTask calls, each as the id passed and
                   \* the task registered under it then (NoTask: none)

VARIABLES
  \* ---- the task registry that setTaskRegistry replaces
  taskRegistry,    \* the registry installed
  tasks,           \* tasks[g]: the Map of registry g, from task id to task
                   \* object
  found,           \* the last getTask call through the installed registry:
                   \* its argument and what it returned
  \* ---- history (not program state)
  asked,           \* the argument of the last setTaskRegistry call
  home,            \* home[r]: the registry last asked for when the task
                   \* object r was created
  gone,            \* the task objects whose id was passed to deleteTask
                   \* while their home was the registry last asked for
  lastDelete       \* the last deleteTask call: the registry last asked for
                   \* then, and the id passed

VARIABLES
  \* ---- GrpcWebClient
  trailers,        \* the Map handed to getStatus: a function on its keys
  grpcStatus,      \* the GrpcStatus getStatus returned
  sent,            \* the frames the peer puts on the wire, each a flag and a
                   \* payload
  body,            \* the bytes handed to parseResponse
  contentType,     \* its contentType argument
  headers,         \* its headers argument
  response         \* what parseResponse returned, or that it threw

VARIABLES
  \* ---- batchEnableNsfw
  mapped           \* the Map batchEnableNsfw returned, once it has

taskVars == <<total, processed, ok, fail, status, cancelled, warning, result,
              error, finalEvent, queues, hq, emitted>>
rbVars == <<items, optBatchSize, rbPc, i, st, results, chunks, cancelObserved,
            lateSettled>>
registryVars == <<TASKS, heap, lookup, deleted>>
statusVars == <<trailers, grpcStatus>>
codecVars == <<sent, body, contentType, headers, response>>
grpcVars == <<statusVars, codecVars>>
nsfwVars == <<mapped>>
injectVars == <<taskRegistry, tasks, found, asked, home, gone, lastDelete>>
extVars == <<registryVars, injectVars, grpcVars, nsfwVars>>
coreVars == <<taskVars, rbVars, streams>>
vars == <<taskVars, rbVars, streams, extVars>>

(***************************************************************************)
(* BatchTask                                                               *)
(***************************************************************************)
NoEvent == [type |-> None]

\* the four event shapes, as one record type; absent fields are None
ProgressEvent(p, o, f, err) ==
  [type |-> "progress", total |-> total, processed |-> p, ok |-> o, fail |-> f,
   error |-> err, warning |-> None, result |-> None]
DoneEvent(res, warn) ==
  [type |-> "done", total |-> total, processed |-> processed, ok |-> ok,
   fail |-> fail, error |-> None, warning |-> warn, result |-> res]
ErrorEvent(err) ==
  [type |-> "error", total |-> total, processed |-> processed, ok |-> ok,
   fail |-> fail, error |-> err, warning |-> None, result |-> None]
CancelledEvent ==
  [type |-> "cancelled", total |-> total, processed |-> processed, ok |-> ok,
   fail |-> fail, error |-> None, warning |-> None, result |-> None]

TerminalTypes == {"done", "error", "cancelled"}

\* push with the bound tested one too late
pushOneOver(queue, event) ==
  IF Len(queue) <= QueueCapacity THEN Append(queue, event) ELSE queue

\* push on a full queue making room by dropping the oldest entry
pushDropsOldest(queue, event) ==
  IF Len(queue) < QueueCapacity
    THEN Append(queue, event)
    ELSE Append(SubSeq(queue, 2, Len(queue)), event)

\* the push closure of a handle: append unless the queue is full
push(queue, event) ==
  IF Len(queue) < QueueCapacity THEN Append(queue, event) ELSE queue

Attached == {queues[k] : k \in DOMAIN queues}

\* publish(event) that stops after the first attached handle
publishToFirstOnly(event) ==
  /\ hq' = [h \in DOMAIN hq |->
              IF queues # <<>> /\ h = queues[1]
                THEN push(hq[h], event) ELSE hq[h]]
  /\ emitted' = Append(emitted, event)

\* publish(event): push to every attached handle
publish(event) ==
  /\ hq' = [h \in DOMAIN hq |->
              IF h \in Attached THEN push(hq[h], event) ELSE hq[h]]
  /\ emitted' = Append(emitted, event)

\* record() with the failure branch losing its fail++
recordLosesFailure(success, err) ==
  /\ processed' = processed + 1
  /\ ok' = IF success THEN ok + 1 ELSE ok
  /\ fail' = fail
  /\ publish(ProgressEvent(processed + 1,
                           IF success THEN ok + 1 ELSE ok,
                           fail,
                           IF err # "" /\ err # None THEN err ELSE None))

\* record(success, opts): opts.error is put on the event only when truthy
record(success, err) ==
  /\ processed' = processed + 1
  /\ ok' = IF success THEN ok + 1 ELSE ok
  /\ fail' = IF success THEN fail ELSE fail + 1
  /\ publish(ProgressEvent(processed + 1,
                           IF success THEN ok + 1 ELSE ok,
                           IF success THEN fail ELSE fail + 1,
                           IF err # "" /\ err # None THEN err ELSE None))

finish(res, warn) ==
  /\ status' = "done"
  /\ result' = res
  /\ warning' = warn
  /\ finalEvent' = DoneEvent(res, warn)
  /\ publish(DoneEvent(res, warn))
  /\ UNCHANGED <<total, processed, ok, fail, cancelled, error, queues>>

failTask(err) ==
  /\ status' = "error"
  /\ error' = err
  /\ finalEvent' = ErrorEvent(err)
  /\ publish(ErrorEvent(err))
  /\ UNCHANGED <<total, processed, ok, fail, cancelled, warning, result, queues>>

\* finishCancelled keeping the final event only when somebody is attached
finishCancelledCachesIfHeard ==
  /\ status' = "cancelled"
  /\ finalEvent' = IF queues # <<>> THEN CancelledEvent ELSE finalEvent
  /\ publish(CancelledEvent)
  /\ UNCHANGED <<total, processed, ok, fail, cancelled, warning, result, error,
                 queues>>

finishCancelled ==
  /\ status' = "cancelled"
  /\ finalEvent' = CancelledEvent
  /\ publish(CancelledEvent)
  /\ UNCHANGED <<total, processed, ok, fail, cancelled, warning, result, error,
                 queues>>

\* getFinalEvent()
getFinalEvent == finalEvent

\* cancel() that also moves the task to its cancelled status
cancelAlsoEndsTask ==
  /\ cancelled' = TRUE
  /\ status' = "cancelled"
  /\ UNCHANGED <<total, processed, ok, fail, warning, result, error,
                 finalEvent, queues, hq, emitted>>

cancel ==
  /\ cancelled' = TRUE
  /\ UNCHANGED <<total, processed, ok, fail, status, warning, result, error,
                 finalEvent, queues, hq, emitted>>

attach ==
  /\ hq' = Append(hq, <<>>)
  /\ queues' = Append(queues, Len(hq) + 1)
  /\ UNCHANGED <<total, processed, ok, fail, status, cancelled, warning, result,
                 error, finalEvent, emitted>>

\* this.queues.indexOf(handle): 0 stands for -1 (positions are 1-based here)
indexOf(h) ==
  IF h \in Attached
    THEN CHOOSE k \in DOMAIN queues :
           queues[k] = h /\ \A m \in 1..(k - 1) : queues[m] # h
    ELSE 0

\* this.queues.splice(idx, 1)
splice(idx) ==
  [k \in 1..(Len(queues) - 1) |-> IF k < idx THEN queues[k] ELSE queues[k + 1]]

\* detach without the idx >= 0 test: splice(-1, 1) removes the last handle
detachUnguarded(h) ==
  /\ queues' = IF indexOf(h) >= 1 THEN splice(indexOf(h))
                ELSE SubSeq(queues, 1, Len(queues) - 1)
  /\ UNCHANGED <<total, processed, ok, fail, status, cancelled, warning, result,
                 error, finalEvent, hq, emitted>>

detach(h) ==
  /\ queues' = IF indexOf(h) >= 1 THEN splice(indexOf(h)) ELSE queues
  /\ UNCHANGED <<total, processed, ok, fail, status, cancelled, warning, result,
                 error, finalEvent, hq, emitted>>

(***************************************************************************)
(* runBatch                                                                *)
(***************************************************************************)
\* options.batchSize || 50, zero falling back to the default as well
batchSizeZeroIsDefault ==
  IF optBatchSize.given /\ optBatchSize.value > 0 THEN optBatchSize.value
  ELSE DefaultBatchSize

\* Math.max(1, options.batchSize ?? 50)
batchSize ==
  Max2(1, IF optBatchSize.given THEN optBatchSize.value ELSE DefaultBatchSize)

\* the slice taken one item too wide
ChunkOneTooWide(n) == (n + 1)..Min2(n + batchSize + 1, Len(items))

\* items.slice(n, n + batchSize), as positions 1..Len(items) of the input
Chunk(n) == (n + 1)..Min2(n + batchSize, Len(items))

CancelledResult == [ok |-> FALSE, data |-> 0, error |-> "cancelled", cancelled |-> TRUE]
SuccessResult(p) == [ok |-> TRUE, data |-> p, error |-> None, cancelled |-> FALSE]
FailureResult(err) == [ok |-> FALSE, data |-> 0, error |-> err, cancelled |-> FALSE]

\* results.set(key, value)
MapSet(m, key, value) ==
  [k \in DOMAIN m \cup {key} |-> IF k = key THEN value ELSE m[k]]

\* processOne storing a plain failure for an item it skips
DispatchMarksSkippedFailed(n, skip) ==
  /\ st' = [p \in DOMAIN st |->
              IF p \in Chunk(n)
                THEN (IF skip[p] THEN "skipped" ELSE "inflight")
                ELSE st[p]]
  /\ results' = [k \in DOMAIN results \cup {items[p] : p \in {q \in Chunk(n) : skip[q]}} |->
                   IF \E p \in Chunk(n) : skip[p] /\ items[p] = k
                     THEN FailureResult("cancelled")
                     ELSE results[k]]
  /\ chunks' = Append(chunks, <<n + 1, Min2(n + batchSize, Len(items))>>)
  /\ cancelObserved' = (cancelObserved \/ \E p \in Chunk(n) : skip[p])
  /\ rbPc' = "await"

\* chunk.map(processOne) up to each item's first await. skip[p] is what the
\* cancellation test of item p finds: shouldCancel() may answer differently on
\* every call, task.cancelled cannot change inside this synchronous section.
\* Every skipped item sets the same value, so the order of the sets is immaterial.
Dispatch(n, skip) ==
  /\ st' = [p \in DOMAIN st |->
              IF p \in Chunk(n)
                THEN (IF skip[p] THEN "skipped" ELSE "inflight")
                ELSE st[p]]
  /\ results' = [k \in DOMAIN results \cup {items[p] : p \in {q \in Chunk(n) : skip[q]}} |->
                   IF \E p \in Chunk(n) : skip[p] /\ items[p] = k
                     THEN CancelledResult
                     ELSE results[k]]
  /\ chunks' = Append(chunks, <<n + 1, Min2(n + batchSize, Len(items))>>)
  /\ cancelObserved' = (cancelObserved \/ \E p \in Chunk(n) : skip[p])
  /\ rbPc' = "await"

\* the loop consulting shouldCancel() only, never task.cancelled
LoopIterationIgnoresTaskFlag(n) ==
  /\ i' = n
  /\ \/ /\ n >= Len(items)
        /\ rbPc' = "done"
        /\ UNCHANGED <<st, results, chunks, cancelObserved>>
     \/ /\ n < Len(items)
        /\ rbPc' = "done"
        /\ cancelObserved' = TRUE
        /\ UNCHANGED <<st, results, chunks>>
     \/ /\ n < Len(items)
        /\ \E skip \in [Chunk(n) -> BOOLEAN] : Dispatch(n, skip)

\* one pass of the for loop with i = n: the loop test, the chunk-boundary
\* cancellation test, then the dispatch of the chunk up to the await
LoopIteration(n) ==
  /\ i' = n
  /\ \/ /\ n >= Len(items)
        /\ rbPc' = "done"
        /\ UNCHANGED <<st, results, chunks, cancelObserved>>
     \/ /\ n < Len(items)
        /\ \E sc \in BOOLEAN :
             /\ sc \/ cancelled
             /\ rbPc' = "done"
             /\ cancelObserved' = TRUE
             /\ UNCHANGED <<st, results, chunks>>
     \/ /\ n < Len(items)
        /\ ~cancelled
        /\ \E skip \in [Chunk(n) -> BOOLEAN] : Dispatch(n, skip)

\* the call of runBatch(items, worker, {batchSize, task, shouldCancel})
RunBatchCall ==
  /\ rbPc = "idle"
  /\ LoopIteration(0)
  /\ UNCHANGED <<items, optBatchSize, lateSettled, streams, extVars>>
  /\ UNCHANGED taskVars

\* processOne with a catch block that stores the failure but does not record it
SettleForgetsFailure(p) ==
  /\ rbPc = "await"
  /\ st[p] = "inflight"
  /\ \/ /\ st' = [st EXCEPT ![p] = "fulfilled"]
        /\ results' = MapSet(results, items[p], SuccessResult(p))
        /\ record(TRUE, None)
     \/ \E err \in WorkerErrors :
          /\ st' = [st EXCEPT ![p] = "rejected"]
          /\ results' = MapSet(results, items[p], FailureResult(err))
          /\ UNCHANGED <<processed, ok, fail, hq, emitted>>
  /\ UNCHANGED <<total, status, cancelled, warning, result, error, finalEvent,
                 queues>>
  /\ lateSettled' = IF cancelled THEN lateSettled \cup {p} ELSE lateSettled
  /\ UNCHANGED <<items, optBatchSize, rbPc, i, chunks, cancelObserved, streams,
               extVars>>

\* processOne looking at the flag again after its await: an item that settles
\* under cancellation is stored as cancelled and not recorded
SettleCancelsWhenFlagged(p) ==
  /\ rbPc = "await"
  /\ st[p] = "inflight"
  /\ \/ /\ cancelled
        /\ st' = [st EXCEPT ![p] = "skipped"]
        /\ results' = MapSet(results, items[p], CancelledResult)
        /\ UNCHANGED <<processed, ok, fail, hq, emitted>>
     \/ /\ ~cancelled
        /\ st' = [st EXCEPT ![p] = "fulfilled"]
        /\ results' = MapSet(results, items[p], SuccessResult(p))
        /\ record(TRUE, None)
     \/ \E err \in WorkerErrors :
          /\ ~cancelled
          /\ st' = [st EXCEPT ![p] = "rejected"]
          /\ results' = MapSet(results, items[p], FailureResult(err))
          /\ record(FALSE, err)
  /\ UNCHANGED <<total, status, cancelled, warning, result, error, finalEvent,
                 queues>>
  /\ lateSettled' = IF cancelled THEN lateSettled \cup {p} ELSE lateSettled
  /\ UNCHANGED <<items, optBatchSize, rbPc, i, chunks, cancelObserved, streams,
               extVars>>

\* processOne leaving alone a key that already has an entry
SettleKeepsFirstOutcome(p) ==
  /\ rbPc = "await"
  /\ st[p] = "inflight"
  /\ \/ /\ st' = [st EXCEPT ![p] = "fulfilled"]
        /\ results' = IF items[p] \in DOMAIN results THEN results
                      ELSE MapSet(results, items[p], SuccessResult(p))
        /\ record(TRUE, None)
     \/ \E err \in WorkerErrors :
          /\ st' = [st EXCEPT ![p] = "rejected"]
          /\ results' = IF items[p] \in DOMAIN results THEN results
                        ELSE MapSet(results, items[p], FailureResult(err))
          /\ record(FALSE, err)
  /\ UNCHANGED <<total, status, cancelled, warning, result, error, finalEvent,
                 queues>>
  /\ lateSettled' = IF cancelled THEN lateSettled \cup {p} ELSE lateSettled
  /\ UNCHANGED <<items, optBatchSize, rbPc, i, chunks, cancelObserved, streams,
               extVars>>

\* the operation of item p settles and processOne resumes after its await
Settle(p) ==
  /\ rbPc = "await"
  /\ st[p] = "inflight"
  /\ \/ /\ st' = [st EXCEPT ![p] = "fulfilled"]
        /\ results' = MapSet(results, items[p], SuccessResult(p))
        /\ record(TRUE, None)
     \/ \E err \in WorkerErrors :
          /\ st' = [st EXCEPT ![p] = "rejected"]
          /\ results' = MapSet(results, items[p], FailureResult(err))
          /\ record(FALSE, err)
  /\ UNCHANGED <<total, status, cancelled, warning, result, error, finalEvent,
                 queues>>
  /\ lateSettled' = IF cancelled THEN lateSettled \cup {p} ELSE lateSettled
  /\ UNCHANGED <<items, optBatchSize, rbPc, i, chunks, cancelObserved, streams,
               extVars>>

\* runBatch ending the task itself when it goes on under cancellation
LoopContinueFinishesCancelled ==
  /\ rbPc = "await"
  /\ \A p \in Chunk(i) : st[p] # "inflight"
  /\ LoopIteration(i + batchSize)
  /\ UNCHANGED <<items, optBatchSize, lateSettled, streams, extVars>>
  /\ IF cancelled THEN finishCancelled ELSE UNCHANGED taskVars

\* the loop advancing by one item instead of one chunk
LoopContinueStrideOne ==
  /\ rbPc = "await"
  /\ \A p \in Chunk(i) : st[p] # "inflight"
  /\ LoopIteration(i + 1)
  /\ UNCHANGED <<items, optBatchSize, lateSettled, streams, extVars>>
  /\ UNCHANGED taskVars

\* the loop resuming as soon as one item of the chunk is through (a race, not all)
LoopContinueAfterFirst ==
  /\ rbPc = "await"
  /\ \E p \in Chunk(i) : st[p] # "inflight"
  /\ LoopIteration(i + batchSize)
  /\ UNCHANGED <<items, optBatchSize, lateSettled, streams, extVars>>
  /\ UNCHANGED taskVars

\* the loop going on without awaiting the chunk's operations
LoopContinueUnawaited ==
  /\ rbPc = "await"
  /\ LoopIteration(i + batchSize)
  /\ UNCHANGED <<items, optBatchSize, lateSettled, streams, extVars>>
  /\ UNCHANGED taskVars

\* Promise.all resolves once every processOne of the chunk has returned;
\* runBatch resumes with i += batchSize
LoopContinue ==
  /\ rbPc = "await"
  /\ \A p \in Chunk(i) : st[p] # "inflight"
  /\ LoopIteration(i + batchSize)
  /\ UNCHANGED <<items, optBatchSize, lateSettled, streams, extVars>>
  /\ UNCHANGED taskVars

(***************************************************************************)
(* createBatchEventStream                                                  *)
(***************************************************************************)
\* the position in queue q of the first event the interval callback closes
\* the stream on (type done, error or cancelled); 0 when there is none
firstTerminal(q) ==
  IF \E k \in DOMAIN q : q[k].type \in TerminalTypes
    THEN CHOOSE k \in DOMAIN q :
           /\ q[k].type \in TerminalTypes
           /\ \A m \in 1..(k - 1) : q[m].type \notin TerminalTypes
    ELSE 0

\* the events one run of the interval callback shifts off queue q: the loop
\* runs until the queue is empty, or returns after the first terminal event
shifted(q) ==
  IF firstTerminal(q) = 0 THEN q ELSE SubSeq(q, 1, firstTerminal(q))

\* sendEvent for each event of evs: controller.enqueue puts an event into an
\* open stream; on a stream that is closed or cancelled it throws, and the
\* catch block logs the failure
sendEvent(s, evs) == IF s.state = "open" THEN s.out \o evs ELSE s.out

\* createBatchEventStream(task): the ReadableStream constructor runs start(),
\* which attaches a handle, sends the snapshot of the counters and sets the
\* interval timer
createBatchEventStream ==
  /\ attach
  /\ streams' = MapSet(streams, Len(hq) + 1,
                       [state |-> "open", timer |-> TRUE,
                        out |-> <<ProgressEvent(processed, ok, fail, None)>>,
                        taken |-> <<>>, startStatus |-> status])

\* one run of the interval callback of the stream on handle h
poll(h) ==
  LET s == streams[h]
      k == firstTerminal(hq[h])
  IN  /\ hq' = [hq EXCEPT ![h] = SubSeq(hq[h], Len(shifted(hq[h])) + 1,
                                        Len(hq[h]))]
      /\ queues' = IF k >= 1 /\ indexOf(h) >= 1
                     THEN splice(indexOf(h)) ELSE queues
      /\ streams' = [streams EXCEPT ![h] =
            [state |-> IF k >= 1 /\ s.state = "open" THEN "closed" ELSE s.state,
             timer |-> k = 0,
             out |-> sendEvent(s, shifted(hq[h])),
             taken |-> s.taken \o shifted(hq[h]),
             startStatus |-> s.startStatus]]
      /\ UNCHANGED <<total, processed, ok, fail, status, cancelled, warning,
                     result, error, finalEvent, emitted>>

\* the consumer cancels the stream (the client goes away). The underlying
\* source has a start method only, no cancel method, and the function that
\* start returns is not called by the stream: the timer stays set and the
\* handle stays attached.
cancelStream(h) ==
  /\ streams' = [streams EXCEPT ![h].state = "cancelled"]
  /\ UNCHANGED taskVars

(***************************************************************************)
(* The callers of the task: its owner and its subscribers                  *)
(***************************************************************************)
Cancel ==
  /\ ~cancelled
  /\ cancel
  /\ UNCHANGED <<rbVars, streams, extVars>>

Attach ==
  /\ Len(hq) < MaxHandles
  /\ attach
  /\ UNCHANGED <<rbVars, streams, extVars>>

\* detach of any handle ever returned by attach, attached or not
Detach ==
  /\ \E h \in DOMAIN hq : detach(h)
  /\ UNCHANGED <<rbVars, streams, extVars>>

\* terminal transitions called on the task, in any state of the task
Finish ==
  /\ \E res \in Results, warn \in Warnings : finish(res, warn)
  /\ UNCHANGED <<rbVars, streams, extVars>>

FailTask ==
  /\ \E err \in FatalErrors : failTask(err)
  /\ UNCHANGED <<rbVars, streams, extVars>>

FinishCancelled ==
  /\ finishCancelled
  /\ UNCHANGED <<rbVars, streams, extVars>>

\* record() called directly on the task, outside any runBatch
Record ==
  /\ \/ record(TRUE, None)
     \/ \E err \in WorkerErrors : record(FALSE, err)
  /\ UNCHANGED <<total, status, cancelled, warning, result, error, finalEvent,
                 queues>>
  /\ UNCHANGED <<rbVars, streams, extVars>>

\* an owner that ends its task once: one terminal transition, while running
OwnerFinish == status = "running" /\ Finish
OwnerFailTask == status = "running" /\ FailTask
OwnerFinishCancelled == status = "running" /\ FinishCancelled

\* the caller who awaits runBatch and ends the task with what it returned
FinishAfterReturn == rbPc = "done" /\ OwnerFinish
FailTaskAfterReturn == rbPc = "done" /\ OwnerFailTask
FinishCancelledAfterReturn == rbPc = "done" /\ OwnerFinishCancelled

(***************************************************************************)
(* The task registry                                                       *)
(***************************************************************************)
\* the ids crypto.randomUUID() can return: one more than the tasks a
\* behaviour creates, so that some id is never issued
TaskIds == 1..(MaxTasks + 1)

\* what Map.get returns for a key that is not in the map
NoTask == 0

\* the ids given to the task objects made so far
Issued == { heap[r].id : r \in DOMAIN heap }

\* new BatchTask(total): the fields set by the constructor and the
\* initializers
NewTask(id, n) ==
  [id |-> id, total |-> n, processed |-> 0, ok |-> 0, fail |-> 0,
   status |-> "running"]

\* createTask(total), the constructor having drawn the id
createTask(n, id) ==
  /\ heap' = Append(heap, NewTask(id, n))
  /\ TASKS' = MapSet(TASKS, id, Len(heap) + 1)

\* getTask(taskId)
getTask(taskId) == IF taskId \in DOMAIN TASKS THEN TASKS[taskId] ELSE NoTask

\* deleteTask forgetting every task
deleteTaskClears(taskId) == TASKS' = <<>>

\* deleteTask(taskId)
deleteTask(taskId) ==
  TASKS' = [k \in DOMAIN TASKS \ {taskId} |-> TASKS[k]]

\* task.record(success) on the task object t: the counters
recorded(t, success) ==
  [t EXCEPT !.processed = @ + 1,
            !.ok = IF success THEN @ + 1 ELSE @,
            !.fail = IF success THEN @ ELSE @ + 1]

\* task.finish(), failTask() or finishCancelled() on the task object t: the
\* status
ended(t, type) == [t EXCEPT !.status = type]

\* randomUUID never returns the same value twice: the ids are drawn in one
\* fixed order, the largest first, and id 1 is never drawn
randomUUID == CHOOSE id \in TaskIds \ Issued : \A j \in TaskIds \ Issued : j <= id

CreateTask ==
  /\ Len(heap) < MaxTasks
  /\ createTask(1, randomUUID)
  /\ UNCHANGED <<lookup, deleted, coreVars, injectVars, grpcVars, nsfwVars>>

GetTask ==
  /\ \E id \in TaskIds : lookup' = [id |-> id, task |-> getTask(id)]
  /\ UNCHANGED <<TASKS, heap, deleted, coreVars, injectVars, grpcVars, nsfwVars>>

DeleteTask ==
  /\ \E id \in TaskIds :
       /\ deleteTask(id)
       /\ deleted' = deleted \cup {<<id, getTask(id)>>}
  /\ UNCHANGED <<heap, lookup, coreVars, injectVars, grpcVars, nsfwVars>>

\* whoever holds a task object calls its methods, whether it is registered
\* or not; one record() call per task
RecordTask ==
  /\ \E r \in DOMAIN heap, success \in BOOLEAN :
       /\ heap[r].processed = 0
       /\ heap' = [heap EXCEPT ![r] = recorded(@, success)]
  /\ UNCHANGED <<TASKS, lookup, deleted, coreVars, injectVars, grpcVars,
               nsfwVars>>

EndTask ==
  /\ \E r \in DOMAIN heap, type \in TerminalTypes :
       /\ heap[r].status = "running"
       /\ heap' = [heap EXCEPT ![r] = ended(@, type)]
  /\ UNCHANGED <<TASKS, lookup, deleted, coreVars, injectVars, grpcVars,
               nsfwVars>>

RegistryIdle ==
  /\ TASKS = <<>> /\ heap = <<>>
  /\ lookup = [id |-> NoTask, task |-> NoTask]
  /\ deleted = {}

(***************************************************************************)
(* The replaceable task registry: the module with setTaskRegistry          *)
(***************************************************************************)
\* the InMemoryTaskRegistry made when the module is loaded; the class is not
\* exported, so no caller can pass it, or another instance of it, to
\* setTaskRegistry
InMemory == "default"

\* the registries external providers pass to setTaskRegistry: each keeps its
\* tasks in a Map of its own, as the TaskRegistry contract has it
Providers == {"r1", "r2"}

Registries == {InMemory} \cup Providers

\* registry.create(total): the task object made is the one at reference r
create(g, id, r) == tasks' = [tasks EXCEPT ![g] = MapSet(@, id, r)]

\* registry.get(taskId)
get(g, taskId) ==
  IF taskId \in DOMAIN tasks[g] THEN tasks[g][taskId] ELSE NoTask

\* registry.delete(taskId)
delete(g, taskId) ==
  tasks' = [tasks EXCEPT
              ![g] = [k \in DOMAIN tasks[g] \ {taskId} |-> tasks[g][k]]]

\* setTaskRegistry that leaves the registry in place
setTaskRegistryIgnored(registry) == taskRegistry' = taskRegistry

\* setTaskRegistry(registry)
setTaskRegistry(registry) == taskRegistry' = registry

\* the registry the callers asked for last, the default one if none did
Installed == IF asked = None THEN InMemory ELSE asked

\* The exported createTask(total) of both modules, called with the same
\* argument, the BatchTask constructor giving both the same object: the one
\* of batch.ts sets TASKS, the one with a registry calls
\* taskRegistry.create.
CreateTaskVia ==
  /\ Len(heap) < MaxTasks
  /\ createTask(1, randomUUID)
  /\ create(taskRegistry, randomUUID, Len(heap) + 1)
  /\ home' = Append(home, Installed)
  /\ UNCHANGED <<taskRegistry, found, asked, gone, lastDelete, lookup,
                 deleted, coreVars, grpcVars, nsfwVars>>

\* the exported getTask(taskId) of both modules
GetTaskVia ==
  /\ \E id \in TaskIds :
       /\ lookup' = [id |-> id, task |-> getTask(id)]
       /\ found' = [id |-> id, task |-> get(taskRegistry, id)]
  /\ UNCHANGED <<taskRegistry, tasks, asked, home, gone, lastDelete, TASKS,
                 heap, deleted, coreVars, grpcVars, nsfwVars>>

\* the exported deleteTask(taskId) of both modules
DeleteTaskVia ==
  /\ \E id \in TaskIds :
       /\ deleteTask(id)
       /\ delete(taskRegistry, id)
       /\ gone' = gone \cup { r \in DOMAIN heap :
                                heap[r].id = id /\ home[r] = Installed }
       /\ lastDelete' = [in |-> Installed, id |-> id]
  /\ UNCHANGED <<taskRegistry, found, asked, home, heap, lookup, deleted,
                 coreVars, grpcVars, nsfwVars>>

\* a provider installs its registry
SetTaskRegistry ==
  /\ \E registry \in Providers :
       /\ setTaskRegistry(registry)
       /\ asked' = registry
  /\ UNCHANGED <<tasks, found, home, gone, lastDelete, registryVars,
                 coreVars, grpcVars, nsfwVars>>

InjectIdle ==
  /\ taskRegistry = InMemory
  /\ tasks = [g \in Registries |-> <<>>]
  /\ found = [id |-> NoTask, task |-> NoTask]
  /\ asked = None
  /\ home = <<>>
  /\ gone = {}
  /\ lastDelete = [in |-> None, id |-> NoTask]

(***************************************************************************)
(* GrpcWebClient.getStatus                                                 *)
(***************************************************************************)
\* A string is the sequence of its characters. The characters tried in a
\* grpc-status value: the digits of the codes in httpEquivMap, a sign, white
\* space, and a character that is neither.
DigitChars == <<"0", "1", "2", "3", "4", "5", "6", "7", "8", "9">>
StatusChars == {"0", "1", "4", "6", "7", "8", "-", " ", "x"}

RECURSIVE Strings(_)
Strings(n) ==
  IF n = 0 THEN {<<>>}
  ELSE LET shorter == Strings(n - 1)
       IN  shorter \cup { Append(w, c) : w \in {v \in shorter : Len(v) = n - 1},
                                         c \in StatusChars }

IsDigit(c) == \E d \in DOMAIN DigitChars : DigitChars[d] = c
DigitValue(c) == (CHOOSE d \in DOMAIN DigitChars : DigitChars[d] = c) - 1

RECURSIVE TrimStart(_)
TrimStart(w) == IF w # <<>> /\ Head(w) = " " THEN TrimStart(Tail(w)) ELSE w

\* the value of the longest prefix of decimal digits of w, after acc
RECURSIVE DigitsValue(_, _)
DigitsValue(w, acc) ==
  IF w # <<>> /\ IsDigit(Head(w))
  THEN DigitsValue(Tail(w), 10 * acc + DigitValue(Head(w)))
  ELSE acc

NaN == [nan |-> TRUE, n |-> 0]

\* parseInt(w, 10): leading white space is skipped, then an optional sign,
\* then the longest run of decimal digits; NaN when that run is empty
parseInt(w) ==
  LET t == TrimStart(w)
      signed == t # <<>> /\ Head(t) \in {"-", "+"}
      digits == IF signed THEN Tail(t) ELSE t
  IN  IF digits = <<>> \/ ~IsDigit(Head(digits)) THEN NaN
      ELSE [nan |-> FALSE,
            n |-> IF signed /\ Head(t) = "-"
                  THEN 0 - DigitsValue(digits, 0)
                  ELSE DigitsValue(digits, 0)]

\* x || y for numbers: NaN and zero are falsy
OrElse(x, y) == IF x.nan \/ x.n = 0 THEN y ELSE x.n

httpEquivMap ==
  [c \in {0, 16, 7, 8, 4, 14} |->
     CASE c = 0 -> 200 [] c = 16 -> 401 [] c = 7 -> 403
       [] c = 8 -> 429 [] c = 4 -> 504 [] c = 14 -> 503]

\* Map.get(key) ?? fallback
GetOr(m, key, fallback) == IF key \in DOMAIN m THEN m[key] ELSE fallback

\* getStatus with "2" (UNKNOWN) in place of "-1" for a missing grpc-status
getStatusMissingIsUnknown(t) ==
  LET code == OrElse(parseInt(GetOr(t, "grpc-status", <<"2">>)), 0 - 1)
  IN  [code |-> code,
       message |-> GetOr(t, "grpc-message", ""),
       ok |-> code = 0 \/ code = 0 - 1,
       httpEquiv |-> GetOr(httpEquivMap, code, 502)]

\* getStatus(trailers)
getStatus(t) ==
  LET codeStr == GetOr(t, "grpc-status", <<"-", "1">>)
      message == GetOr(t, "grpc-message", "")
      code == OrElse(parseInt(codeStr), 0 - 1)
  IN  [code |-> code,
       message |-> message,
       ok |-> code = 0 \/ code = 0 - 1,
       httpEquiv |-> GetOr(httpEquivMap, code, 502)]

\* the trailer maps tried: grpc-status and grpc-message, each there or not
TrailerMaps ==
  LET statuses == {<<>>} \cup { [k \in {"grpc-status"} |-> w] : w \in Strings(MaxLen) }
      messages == {<<>>} \cup { [k \in {"grpc-message"} |-> m] : m \in {"", "ok", "denied"} }
  IN  { [k \in DOMAIN a \cup DOMAIN b |-> IF k \in DOMAIN a THEN a[k] ELSE b[k]] :
          a \in statuses, b \in messages }

\* no getStatus call was made
NoStatus == [code |-> 0, message |-> "", ok |-> FALSE, httpEquiv |-> 0]

GetStatus ==
  /\ grpcStatus = NoStatus
  /\ grpcStatus' = getStatus(trailers)
  /\ UNCHANGED <<trailers, codecVars, registryVars, injectVars, coreVars,
               nsfwVars>>

StatusIdle == trailers = <<>> /\ grpcStatus = NoStatus

(***************************************************************************)
(* GrpcWebClient.encodePayload and parseResponse                           *)
(***************************************************************************)
\* A byte is a number in 0..255; a text is the sequence of its characters.
\* TextDecoder on bytes below 128: letters, digits and the punctuation the
\* trailers and base64 use; "?" stands for every other character.
UpperChars == <<"A", "B", "C", "D", "E", "F", "G", "H", "I", "J", "K", "L", "M",
                "N", "O", "P", "Q", "R", "S", "T", "U", "V", "W", "X", "Y", "Z">>
LowerChars == <<"a", "b", "c", "d", "e", "f", "g", "h", "i", "j", "k", "l", "m",
                "n", "o", "p", "q", "r", "s", "t", "u", "v", "w", "x", "y", "z">>
Punctuation ==
  { <<9, "\t">>, <<10, "\n">>, <<12, "\f">>, <<13, "\r">>, <<32, " ">>,
    <<37, "%">>, <<43, "+">>, <<45, "-">>, <<47, "/">>, <<58, ":">>,
    <<61, "=">> }

CharOf(b) ==
  IF b \in 65..90 THEN UpperChars[b - 64]
  ELSE IF b \in 97..122 THEN LowerChars[b - 96]
  ELSE IF b \in 48..57 THEN DigitChars[b - 47]
  ELSE IF \E q \in Punctuation : q[1] = b
       THEN (CHOOSE q \in Punctuation : q[1] = b)[2]
  ELSE "?"

\* the byte of a character of the table
CodeTable ==
  [c \in {CharOf(b) : b \in 0..127} |-> CHOOSE b \in 0..127 : CharOf(b) = c]
CodeOf(c) == CodeTable[c]

TextDecode(bytes) == [k \in DOMAIN bytes |-> CharOf(bytes[k])]
TextEncode(text) == [k \in DOMAIN text |-> CodeOf(text[k])]

\* String.prototype.toLowerCase
toLowerCase(text) ==
  [k \in DOMAIN text |->
     IF \E u \in DOMAIN UpperChars : UpperChars[u] = text[k]
     THEN LowerChars[CHOOSE u \in DOMAIN UpperChars : UpperChars[u] = text[k]]
     ELSE text[k]]

WhiteSpace == {" ", "\t", "\n", "\r", "\f"}

RECURSIVE trimStart(_)
trimStart(text) ==
  IF text # <<>> /\ Head(text) \in WhiteSpace THEN trimStart(Tail(text))
  ELSE text

RECURSIVE trimEnd(_)
trimEnd(text) ==
  IF text # <<>> /\ text[Len(text)] \in WhiteSpace
  THEN trimEnd(SubSeq(text, 1, Len(text) - 1))
  ELSE text

\* String.prototype.trim
trim(text) == trimEnd(trimStart(text))

\* text.split(/\r?\n/): cur is the line being read, done the lines before it
RECURSIVE split(_, _, _)
split(text, cur, done) ==
  IF text = <<>> THEN Append(done, cur)
  ELSE IF Head(text) = "\n"
       THEN split(Tail(text), <<>>,
                  Append(done, IF cur # <<>> /\ cur[Len(cur)] = "\r"
                               THEN SubSeq(cur, 1, Len(cur) - 1) ELSE cur))
  ELSE split(Tail(text), Append(cur, Head(text)), done)

\* line.indexOf(":"), -1 when there is none
colonIndex(line) ==
  IF \E k \in DOMAIN line : line[k] = ":"
  THEN (CHOOSE k \in DOMAIN line :
          line[k] = ":" /\ \A j \in 1..(k - 1) : line[j] # ":") - 1
  ELSE 0 - 1

HexChars == <<"0", "1", "2", "3", "4", "5", "6", "7", "8", "9",
              "a", "b", "c", "d", "e", "f">>
IsHex(c) == \E h \in DOMAIN HexChars : HexChars[h] = toLowerCase(<<c>>)[1]
HexValue(c) ==
  (CHOOSE h \in DOMAIN HexChars : HexChars[h] = toLowerCase(<<c>>)[1]) - 1

\* decodeURIComponent on escapes below %80 (one byte, one character). It
\* gives [ok |-> FALSE] where the function throws URIError: a "%" without
\* two hex digits, or an escape from %80 on that starts no character here.
RECURSIVE decodeURI(_, _)
decodeURI(text, acc) ==
  IF text = <<>> THEN [ok |-> TRUE, text |-> acc]
  ELSE IF Head(text) # "%" THEN decodeURI(Tail(text), Append(acc, Head(text)))
  ELSE IF Len(text) >= 3 /\ IsHex(text[2]) /\ IsHex(text[3])
            /\ 16 * HexValue(text[2]) + HexValue(text[3]) < 128
       THEN decodeURI(SubSeq(text, 4, Len(text)),
                      Append(acc, CharOf(16 * HexValue(text[2]) + HexValue(text[3]))))
  ELSE [ok |-> FALSE, text |-> <<>>]

\* try { value = decodeURIComponent(raw) } catch { }
decodeOrRaw(raw) ==
  IF decodeURI(raw, <<>>).ok THEN decodeURI(raw, <<>>).text ELSE raw

\* the for loop over the lines of a trailer frame, on the trailer map t
RECURSIVE setTrailers(_, _)
setTrailers(lines, t) ==
  IF lines = <<>> THEN t
  ELSE LET line == Head(lines)
           colonIdx == colonIndex(line)
           key == toLowerCase(trim(SubSeq(line, 1, colonIdx)))
           raw == trim(SubSeq(line, colonIdx + 2, Len(line)))
       IN  setTrailers(Tail(lines),
                       IF trim(line) # <<>> /\ colonIdx > 0
                       THEN MapSet(t, key, decodeOrRaw(raw))
                       ELSE t)

\* bits of a number below 2^32
Shr(x, k) == x \div (2 ^ k)
BitSet(x, mask) == (x \div mask) % 2 = 1

\* encodePayload writing the length with the low byte first
encodePayloadLittleEndian(data) ==
  <<0, Len(data) % 256, Shr(Len(data), 8) % 256, Shr(Len(data), 16) % 256,
    Shr(Len(data), 24) % 256>> \o data

\* encodePayload(data)
encodePayload(data) ==
  <<0, Shr(Len(data), 24) % 256, Shr(Len(data), 16) % 256,
    Shr(Len(data), 8) % 256, Len(data) % 256>> \o data

\* the branch taken for a frame: compression tested before the trailer bit
frameKindCompressionFirst(flag) ==
  IF BitSet(flag, 1) THEN "compressed"
  ELSE IF BitSet(flag, 128) THEN "trailer"
  ELSE "message"

\* if (flag & 0x80) ... else if (flag & 0x01) ... else ...
frameKind(flag) ==
  IF BitSet(flag, 128) THEN "trailer"
  ELSE IF BitSet(flag, 1) THEN "compressed"
  ELSE "message"

\* the while loop of parseResponse from offset at, r being what was read
RECURSIVE readFrames(_, _, _)
readFrames(decoded, at, r) ==
  IF ~(at < Len(decoded)) \/ Len(decoded) - at < 5 THEN r
  ELSE LET flag == decoded[at + 1]
           length == decoded[at + 2] * (2 ^ 24) + decoded[at + 3] * (2 ^ 16)
                       + decoded[at + 4] * (2 ^ 8) + decoded[at + 5]
           payload == SubSeq(decoded, at + 6, at + 5 + length)
       IN  IF Len(decoded) - (at + 5) < length THEN r
           ELSE IF frameKind(flag) = "trailer"
                THEN readFrames(decoded, at + 5 + length,
                       [r EXCEPT !.trailers =
                          setTrailers(split(TextDecode(payload), <<>>, <<>>), @)])
           ELSE IF frameKind(flag) = "compressed"
                THEN [r EXCEPT !.threw = TRUE]
           ELSE readFrames(decoded, at + 5 + length,
                           [r EXCEPT !.messages = Append(@, payload)])

\* base64: the alphabet, and atob on a text without white space. It gives
\* [ok |-> FALSE] where atob throws: a character outside the alphabet, or
\* a length that leaves one character over.
B64Chars == UpperChars \o LowerChars \o DigitChars \o <<"+", "/">>
B64Table ==
  [c \in {B64Chars[v] : v \in DOMAIN B64Chars} |->
     (CHOOSE v \in DOMAIN B64Chars : B64Chars[v] = c) - 1]
B64Value(c) == B64Table[c]

\* the bytes of the sextets q: every four sextets three bytes, three
\* sextets two, two sextets one
sextetBytes(q) ==
  [k \in 1..((Len(q) * 3) \div 4) |->
     LET g == 4 * ((k - 1) \div 3)
     IN  CASE (k - 1) % 3 = 0 -> q[g + 1] * 4 + Shr(q[g + 2], 4)
           [] (k - 1) % 3 = 1 -> (q[g + 2] % 16) * 16 + Shr(q[g + 3], 2)
           [] (k - 1) % 3 = 2 -> (q[g + 3] % 4) * 64 + q[g + 4]]

atob(text) ==
  LET n == Len(text)
      pads == IF n % 4 = 0 /\ n >= 2 /\ text[n] = "=" /\ text[n - 1] = "=" THEN 2
              ELSE IF n % 4 = 0 /\ n >= 1 /\ text[n] = "=" THEN 1
              ELSE 0
      data == SubSeq(text, 1, n - pads)
  IN  IF Len(data) % 4 = 1 \/ \E k \in DOMAIN data : data[k] \notin DOMAIN B64Table
      THEN [ok |-> FALSE, bytes |-> <<>>]
      ELSE [ok |-> TRUE,
            bytes |-> sextetBytes([k \in DOMAIN data |-> B64Value(data[k])])]

\* what the peer does for a grpc-web-text response: base64 of the bytes,
\* padded, as text
btoa(bytes) ==
  [k \in 1..(4 * ((Len(bytes) + 2) \div 3)) |->
     LET g == 3 * ((k - 1) \div 4)
         b1 == bytes[g + 1]
         b2 == IF g + 2 <= Len(bytes) THEN bytes[g + 2] ELSE 0
         b3 == IF g + 3 <= Len(bytes) THEN bytes[g + 3] ELSE 0
     IN  CASE (k - 1) % 4 = 0 -> B64Chars[Shr(b1, 2) + 1]
           [] (k - 1) % 4 = 1 -> B64Chars[(b1 % 4) * 16 + Shr(b2, 4) + 1]
           [] (k - 1) % 4 = 2 ->
                IF g + 2 <= Len(bytes)
                THEN B64Chars[(b2 % 16) * 4 + Shr(b3, 6) + 1] ELSE "="
           [] (k - 1) % 4 = 3 ->
                IF g + 3 <= Len(bytes) THEN B64Chars[(b3 % 64) + 1] ELSE "="]

\* text.replace(/\s/g, "")
compact(text) == SelectSeq(text, LAMBDA c : c \notin WhiteSpace)

\* contentType?.toLowerCase().includes("grpc-web-text"), for the content
\* types tried
BinaryType == "application/grpc-web+proto"
TextType == "application/grpc-web-TEXT+proto"
ContentTypes == {None, BinaryType, TextType}
isText(type) == type = TextType

\* the header names parseResponse asks for
StatusName == <<"g", "r", "p", "c", "-", "s", "t", "a", "t", "u", "s">>
MessageName == <<"g", "r", "p", "c", "-", "m", "e", "s", "s", "a", "g", "e">>

\* headers.get(name): null when there is none; "" is falsy as well
headerGiven(h, name) == name \in DOMAIN h /\ h[name] # <<>>

\* the if (headers) block, on the trailer map t; NoHeaders is undefined
NoHeaders == [given |-> FALSE, get |-> <<>>]
fromHeaders(h, t) ==
  IF ~h.given THEN t
  ELSE LET t1 == IF headerGiven(h.get, StatusName) /\ StatusName \notin DOMAIN t
                 THEN MapSet(t, StatusName, h.get[StatusName]) ELSE t
       IN  IF headerGiven(h.get, MessageName) /\ MessageName \notin DOMAIN t1
           THEN MapSet(t1, MessageName, decodeOrRaw(h.get[MessageName]))
           ELSE t1

\* the value of a parseResponse call that threw
Threw == [threw |-> TRUE, messages |-> <<>>, trailers |-> <<>>]

\* parseResponse(body, contentType, headers)
parseResponse(bytes, type, h) ==
  LET b64 == atob(compact(TextDecode(bytes)))
      decoded == IF isText(type) THEN b64.bytes ELSE bytes
      read == readFrames(decoded, 0,
                         [threw |-> FALSE, messages |-> <<>>, trailers |-> <<>>])
  IN  IF isText(type) /\ ~b64.ok THEN Threw
      ELSE IF read.threw THEN Threw
      ELSE [read EXCEPT !.trailers = fromHeaders(h, @)]

\* ---- the inputs tried
\* trailer frame payloads, as text
StatusLine ==
  <<"g", "r", "p", "c", "-", "s", "t", "a", "t", "u", "s", ":", "0">>
StatusAndMessage ==
  <<"G", "r", "p", "c", "-", "S", "t", "a", "t", "u", "s", ":", " ", "1",
    "6", "\r", "\n", "G", "r", "p", "c", "-", "M", "e", "s", "s", "a", "g",
    "e", ":", " ", "a", "%", "2", "0", "b", "\r", "\n">>
OddLines ==
  <<" ", "K", " ", ":", " ", "v", " ", "\n", "\n", "k", ":", "w", "\n",
    ":", "x", "\n", "n", "o", "c", "o", "l", "o", "n">>
BadEscape ==
  <<"m", ":", "%", "4">>
TrailerTexts == {<<>>, StatusLine, StatusAndMessage, OddLines, BadEscape}

\* message payloads: empty, short, and one whose length needs two bytes
LongPayload == [k \in 1..300 |-> 7]
MessagePayloads == {<<>>, <<1, 2, 3>>, LongPayload}

\* the frames a peer sends: messages (flag 0x00, or 0x02 with a bit that
\* means nothing), a compressed message (0x01), trailers (0x80, 0x81)
FrameInputs ==
  {[flag |-> 0, payload |-> b] : b \in MessagePayloads}
    \cup {[flag |-> 2, payload |-> <<7>>],
          [flag |-> 1, payload |-> <<1>>],
          [flag |-> 129, payload |-> TextEncode(StatusLine)]}
    \cup {[flag |-> 128, payload |-> TextEncode(t)] : t \in TrailerTexts}

RECURSIVE FrameLists(_)
FrameLists(n) ==
  IF n = 0 THEN {<<>>}
  ELSE LET shorter == FrameLists(n - 1)
       IN  shorter \cup { Append(l, f) : l \in {m \in shorter : Len(m) = n - 1},
                                         f \in FrameInputs }

HeaderInputs ==
  { NoHeaders,
    [given |-> TRUE, get |-> <<>>],
    [given |-> TRUE,
     get |-> [name \in {StatusName, MessageName} |->
                IF name = StatusName THEN <<"7">>
                ELSE <<"a", "%", "2", "0", "b">>]] }

\* a frame on the wire: the layout of encodePayload, with the frame's flag
frameBytes(f) == [encodePayload(f.payload) EXCEPT ![1] = f.flag]

RECURSIVE wire(_)
wire(frames) ==
  IF frames = <<>> THEN <<>> ELSE frameBytes(Head(frames)) \o wire(Tail(frames))

\* nothing on the wire yet; no parseResponse call made
NoBody == <<0 - 1>>
NotParsed == [called |-> FALSE]

\* The peer answers: the frames, the last cut bytes lost when the
\* connection breaks (none, a byte of the last payload, a part of the last
\* header, more than a header); for a grpc-web-text response in base64,
\* with a line break after it when nl.
Send ==
  /\ body = NoBody
  /\ \E cut \in {0, 1, 4, 6}, nl \in BOOLEAN :
       LET all == wire(sent)
           bytes == SubSeq(all, 1, Len(all) - cut)
       IN  /\ cut <= Len(all)
           /\ nl => isText(contentType)
           /\ body' = IF isText(contentType)
                      THEN TextEncode(btoa(bytes) \o (IF nl THEN <<"\n">> ELSE <<>>))
                      ELSE bytes
  /\ UNCHANGED <<sent, contentType, headers, response>>
  /\ UNCHANGED <<statusVars, registryVars, injectVars, coreVars,
               nsfwVars>>

ParseResponse ==
  /\ body # NoBody
  /\ response = NotParsed
  /\ response' = parseResponse(body, contentType, headers)
  /\ UNCHANGED <<sent, body, contentType, headers>>
  /\ UNCHANGED <<statusVars, registryVars, injectVars, coreVars,
               nsfwVars>>

CodecIdle ==
  /\ sent = <<>> /\ body = NoBody
  /\ contentType = None /\ headers = NoHeaders
  /\ response = NotParsed

(***************************************************************************)
(* batchEnableNsfw                                                         *)
(***************************************************************************)
\* What a remote step (acceptTos, setBirthDate, enableNsfwMode) comes back
\* with: the GrpcStatus read off the response trailers (no grpc-status
\* trailer, "0", or "16" UNAUTHENTICATED), or an exception.
RemoteTrailers ==
  {<<>>} \cup { [k \in {"grpc-status"} |-> w] : w \in {<<"0">>, <<"1", "6">>} }

StepOutcomes ==
  {[thrown |-> TRUE, status |-> NoStatus]}
    \cup {[thrown |-> FALSE, status |-> getStatus(t)] : t \in RemoteTrailers}

StepNames == <<"Accept ToS", "Set birth date", "Enable NSFW">>

\* the NsfwEnableResult of a step that did not go through
StepFailed(step, outcome) ==
  IF outcome.thrown
  THEN [success |-> FALSE, http_status |-> 500,
        error |-> <<StepNames[step], "error">>]
  ELSE [success |-> FALSE, http_status |-> outcome.status.httpEquiv,
        grpc_status |-> outcome.status.code,
        error |-> <<StepNames[step], "failed">>]

\* enableNsfwForToken(db, token), r[k] being what step k comes back with:
\* every path ends in a return, none in a throw
enableNsfwForToken(r) ==
  IF r[1].thrown \/ ~r[1].status.ok THEN StepFailed(1, r[1])
  ELSE IF r[2].thrown \/ ~r[2].status.ok THEN StepFailed(2, r[2])
  ELSE IF r[3].thrown \/ ~r[3].status.ok THEN StepFailed(3, r[3])
  ELSE [success |-> TRUE, http_status |-> r[3].status.httpEquiv,
        grpc_status |-> r[3].status.code]

\* { ok: true, data } of processOne
Fulfilled(data) ==
  [ok |-> TRUE, data |-> data, error |-> None, cancelled |-> FALSE]

\* batchSize: options.batchSize ?? 10
nsfwOptions(o) ==
  IF o.given THEN o ELSE [given |-> TRUE, value |-> NsfwBatchSize]

\* the operation of token p, enableNsfwForToken, settles: it always fulfils,
\* and processOne stores its value and records a success
SettleNsfw(p) ==
  /\ rbPc = "await"
  /\ st[p] = "inflight"
  /\ \E r \in [1..3 -> StepOutcomes] :
       results' = MapSet(results, items[p], Fulfilled(enableNsfwForToken(r)))
  /\ st' = [st EXCEPT ![p] = "fulfilled"]
  /\ record(TRUE, None)
  /\ UNCHANGED <<total, status, cancelled, warning, result, error, finalEvent,
                 queues>>
  /\ lateSettled' = IF cancelled THEN lateSettled \cup {p} ELSE lateSettled
  /\ UNCHANGED <<items, optBatchSize, rbPc, i, chunks, cancelObserved, streams,
               extVars>>

\* no batchEnableNsfw call has returned
NotReturned == [returned |-> FALSE, map |-> <<>>]

\* the loop over results.entries() after runBatch has resolved
BatchEnableNsfwReturn ==
  /\ rbPc = "done"
  /\ mapped = NotReturned
  /\ mapped' =
       [returned |-> TRUE,
        map |-> [k \in DOMAIN results |->
                   IF results[k].ok THEN results[k].data
                   ELSE [success |-> FALSE, http_status |-> 500,
                         error |-> results[k].error]]]
  /\ UNCHANGED <<coreVars, registryVars, injectVars, grpcVars>>

NsfwIdle == mapped = NotReturned

(***************************************************************************)
(* Specifications                                                          *)
(***************************************************************************)
\* nothing registered, nothing decoded
GrpcIdle == StatusIdle /\ CodecIdle
ExtIdle == RegistryIdle /\ InjectIdle /\ GrpcIdle /\ NsfwIdle

\* no task in use and no runBatch call: the state the specifications of the
\* registry and of GrpcWebClient leave alone
CoreIdle ==
  /\ total = 0
  /\ processed = 0 /\ ok = 0 /\ fail = 0
  /\ status = "running"
  /\ cancelled = FALSE
  /\ warning = None /\ result = None /\ error = None
  /\ finalEvent = [type |-> None]
  /\ queues = <<>> /\ hq = <<>>
  /\ emitted = <<>>
  /\ items = <<>>
  /\ optBatchSize = [given |-> FALSE, value |-> 0]
  /\ rbPc = "idle"
  /\ i = 0
  /\ st = <<>>
  /\ results = <<>>
  /\ chunks = <<>>
  /\ cancelObserved = FALSE
  /\ lateSettled = {}
  /\ streams = <<>>

TaskInit ==
  /\ processed = 0 /\ ok = 0 /\ fail = 0
  /\ status = "running"
  /\ cancelled = FALSE
  /\ warning = None /\ result = None /\ error = None
  /\ finalEvent = NoEvent
  /\ queues = <<>> /\ hq = <<>>
  /\ emitted = <<>>

\* a task sized to the collection, and a runBatch call about to be made
Init ==
  /\ items \in ItemLists
  /\ optBatchSize \in BatchSizeOptions
  /\ total = Len(items)
  /\ TaskInit
  /\ rbPc = "idle"
  /\ i = 0
  /\ st = [p \in DOMAIN items |-> "pending"]
  /\ results = <<>>
  /\ chunks = <<>>
  /\ cancelObserved = FALSE
  /\ lateSettled = {}
  /\ streams = <<>>
  /\ ExtIdle

RunBatchStep ==
  \/ RunBatchCall
  \/ \E p \in DOMAIN items : Settle(p)
  \/ LoopContinue

\* Spec: one runBatch call against its task, with cancellation and subscribers
Next ==
  \/ RunBatchStep
  \/ Cancel
  \/ Attach
  \/ Detach

Spec == Init /\ [][Next]_vars

\* CancelSpec: runBatch, cancel() and the owner ending the task at any moment,
\* without subscribers. runBatch runs on when it can: its own steps are
\* synchronous code, and every per-item operation that was invoked settles.
\* Nothing obliges the callers to act.
CancelNext ==
  \/ RunBatchStep
  \/ Cancel
  \/ OwnerFinish
  \/ OwnerFailTask
  \/ OwnerFinishCancelled

CancelSpec ==
  /\ Init /\ [][CancelNext]_vars
  /\ WF_vars(RunBatchCall)
  /\ WF_vars(LoopContinue)
  /\ \A p \in 1..MaxItems : WF_vars(p \in DOMAIN items /\ Settle(p))

\* DuplicateSpec: one runBatch call on a collection that may hold a key
\* value several times, nobody calling cancel(); shouldCancel answers as it
\* likes
InitDuplicate ==
  /\ items \in DuplicateLists
  /\ optBatchSize \in BatchSizeOptions
  /\ total = Len(items)
  /\ TaskInit
  /\ rbPc = "idle"
  /\ i = 0
  /\ st = [p \in DOMAIN items |-> "pending"]
  /\ results = <<>>
  /\ chunks = <<>>
  /\ cancelObserved = FALSE
  /\ lateSettled = {}
  /\ streams = <<>>
  /\ ExtIdle

DuplicateSpec == InitDuplicate /\ [][RunBatchStep]_vars

\* ReturnSpec: runBatch with subscribers and cancellation, the owner ending
\* the task only once runBatch has returned
ReturnNext ==
  \/ RunBatchStep
  \/ Cancel
  \/ Attach
  \/ FinishAfterReturn
  \/ FailTaskAfterReturn
  \/ FinishCancelledAfterReturn

ReturnSpec == Init /\ [][ReturnNext]_vars

\* TaskSpec: a BatchTask alone, its methods called in any order; at most
\* MaxCalls calls of the methods that publish an event
CallBudget == Len(emitted) < MaxCalls

InitTask ==
  /\ total \in 0..(MaxCalls - 1)
  /\ TaskInit
  /\ items = <<>>
  /\ optBatchSize = [given |-> FALSE, value |-> 0]
  /\ rbPc = "idle"
  /\ i = 0
  /\ st = <<>>
  /\ results = <<>>
  /\ chunks = <<>>
  /\ cancelObserved = FALSE
  /\ lateSettled = {}
  /\ streams = <<>>
  /\ ExtIdle

NextTask ==
  \/ CallBudget /\ Record
  \/ CallBudget /\ Finish
  \/ CallBudget /\ FailTask
  \/ CallBudget /\ FinishCancelled
  \/ Cancel
  \/ Attach
  \/ Detach

TaskSpec == InitTask /\ [][NextTask]_vars

\* StreamSpec: a BatchTask with the streams made by createBatchEventStream,
\* at most MaxSubscribers of them. So that a queue can fill, every behaviour
\* starts with a stream opened on the new task and a burst of successful
\* records that comes before the stream's timer first fires, until
\* QueueCapacity - 1 events are queued (Filled). From then on the methods
\* that publish an event are called in any order, MaxCalls times; further
\* streams are opened, the timers tick and the consumers cancel at any moment.
Filled == Len(emitted) >= QueueCapacity - 1

StreamBudget == Filled /\ Len(emitted) < QueueCapacity - 1 + MaxCalls

Burst ==
  /\ ~Filled
  /\ DOMAIN streams = {1}
  /\ record(TRUE, None)
  /\ UNCHANGED <<total, status, cancelled, warning, result, error, finalEvent,
                 queues>>
  /\ UNCHANGED <<rbVars, streams, extVars>>

OpenStream ==
  /\ hq = <<>> \/ Filled
  /\ Len(hq) < MaxSubscribers
  /\ createBatchEventStream
  /\ UNCHANGED <<rbVars, extVars>>

Poll(h) ==
  /\ Filled
  /\ h \in DOMAIN streams
  /\ streams[h].timer
  /\ poll(h)
  /\ UNCHANGED <<rbVars, extVars>>

CancelStream ==
  /\ Filled
  /\ \E h \in DOMAIN streams : streams[h].state = "open" /\ cancelStream(h)
  /\ UNCHANGED <<rbVars, extVars>>

InitStream ==
  /\ total = QueueCapacity + MaxCalls
  /\ TaskInit
  /\ items = <<>>
  /\ optBatchSize = [given |-> FALSE, value |-> 0]
  /\ rbPc = "idle"
  /\ i = 0
  /\ st = <<>>
  /\ results = <<>>
  /\ chunks = <<>>
  /\ cancelObserved = FALSE
  /\ lateSettled = {}
  /\ streams = <<>>
  /\ ExtIdle

NextStream ==
  \/ StreamBudget /\ Record
  \/ StreamBudget /\ Finish
  \/ StreamBudget /\ FailTask
  \/ StreamBudget /\ FinishCancelled
  \/ Burst
  \/ OpenStream
  \/ \E h \in 1..MaxSubscribers : Poll(h)
  \/ CancelStream

\* the interval timer of a stream keeps firing while it is set
StreamSpec ==
  /\ InitStream /\ [][NextStream]_vars
  /\ \A h \in 1..MaxSubscribers : WF_vars(Poll(h))

\* SubscriberSpec: a BatchTask alone, as in TaskSpec, with up to
\* MaxSubscribers subscribers that attach and detach at any moment. detach is
\* called with any handle attach ever returned, or with ForeignHandle, a
\* handle that was not made by this task.
ForeignHandle == 0

AttachSubscriber ==
  /\ Len(hq) < MaxSubscribers
  /\ attach
  /\ UNCHANGED <<rbVars, streams, extVars>>

DetachSubscriber ==
  /\ \E h \in DOMAIN hq \cup {ForeignHandle} : detach(h)
  /\ UNCHANGED <<rbVars, streams, extVars>>

NextSubscriber ==
  \/ CallBudget /\ Record
  \/ CallBudget /\ Finish
  \/ CallBudget /\ FailTask
  \/ CallBudget /\ FinishCancelled
  \/ AttachSubscriber
  \/ DetachSubscriber

\* a task of one size: the subscribers never look at total
InitSubscriber == InitTask /\ total = MaxCalls - 1

SubscriberSpec == InitSubscriber /\ [][NextSubscriber]_vars

\* RegistrySpec: the registry and up to MaxTasks tasks; the three registry
\* functions are called with any id, and the tasks created go through their
\* life whether they are registered or not
InitRegistry == CoreIdle /\ ExtIdle

NextRegistry ==
  \/ CreateTask
  \/ GetTask
  \/ DeleteTask
  \/ RecordTask
  \/ EndTask

RegistrySpec == InitRegistry /\ [][NextRegistry]_vars

\* InjectSpec: the module with setTaskRegistry and the module of batch.ts
\* side by side, the same calls made on both; up to MaxTasks tasks, the
\* default registry and those of two providers, installed in any order
InitInject == CoreIdle /\ ExtIdle

NextInject ==
  \/ CreateTaskVia
  \/ GetTaskVia
  \/ DeleteTaskVia
  \/ SetTaskRegistry

InjectSpec == InitInject /\ [][NextInject]_vars

\* NsfwSpec: batchEnableNsfw(db, tokens, {batchSize, task, shouldCancel}) on
\* a new task sized to the tokens
InitNsfw ==
  /\ items \in ItemLists
  /\ \E o \in BatchSizeOptions : optBatchSize = nsfwOptions(o)
  /\ total = Len(items)
  /\ TaskInit
  /\ rbPc = "idle"
  /\ i = 0
  /\ st = [p \in DOMAIN items |-> "pending"]
  /\ results = <<>>
  /\ chunks = <<>>
  /\ cancelObserved = FALSE
  /\ lateSettled = {}
  /\ streams = <<>>
  /\ ExtIdle

NextNsfw ==
  \/ RunBatchCall
  \/ \E p \in DOMAIN items : SettleNsfw(p)
  \/ LoopContinue
  \/ BatchEnableNsfwReturn

NsfwSpec == InitNsfw /\ [][NextNsfw]_vars

\* CodecSpec: a peer sends up to MaxFrames frames, parseResponse is applied
\* to what arrives
InitCodec ==
  /\ CoreIdle /\ RegistryIdle /\ InjectIdle /\ NsfwIdle /\ StatusIdle
  /\ sent \in FrameLists(MaxFrames)
  /\ contentType \in ContentTypes
  /\ headers \in HeaderInputs
  /\ body = NoBody
  /\ response = NotParsed

NextCodec ==
  \/ Send
  \/ ParseResponse

CodecSpec == InitCodec /\ [][NextCodec]_vars

\* StatusSpec: getStatus applied to a trailer map
InitStatus ==
  /\ CoreIdle /\ RegistryIdle /\ InjectIdle /\ NsfwIdle /\ CodecIdle
  /\ trailers \in TrailerMaps
  /\ grpcStatus = NoStatus

StatusSpec == InitStatus /\ [][GetStatus]_vars

(***************************************************************************)
(* Claims                                                                  *)
(***************************************************************************)
\* number of record() calls made so far: each publishes one progress event
RecordCalls ==
  Cardinality({k \in DOMAIN emitted : emitted[k].type = "progress"})

CountersNeverDecrease ==
  [][processed' >= processed /\ ok' >= ok /\ fail' >= fail]_vars

\* C1 as stated: after any sequence of record calls, of any length, interleaved
\* with attach, detach, cancel and terminal calls, ok + fail = processed and
\* processed <= total, and the three counters never decrease.
C1_Original ==
  /\ [](ok + fail = processed /\ processed <= total)
  /\ CountersNeverDecrease

\* C1 (amended): in every reachable state of a BatchTask ok + fail = processed
\* and processed is the number of record calls made, whatever total is, and
\* the three counters never decrease; hence processed <= total holds as long
\* as record has been called at most total times, and record itself does not
\* enforce it.
C1_CountersConsistent ==
  /\ [](/\ ok + fail = processed
        /\ processed = RecordCalls
        /\ (RecordCalls <= total => processed <= total))
  /\ CountersNeverDecrease

\* successes and failures recorded up to total, around a terminal call, a
\* cancel and an attached subscriber
C1_Witness ==
  /\ total >= 2 /\ processed = total
  /\ ok >= 1 /\ fail >= 1
  /\ status # "running" /\ cancelled
  /\ queues # <<>>

TerminalEvents(q) == {k \in DOMAIN q : q[k].type \in TerminalTypes}

\* C2 as stated: status starts as running and leaves running only for done,
\* error or cancelled; once terminal, no call of finish, failTask,
\* finishCancelled, cancel or record changes it.
C2_TerminalStatusIsFinal ==
  /\ status = "running"
  /\ [][/\ status = "running" => status' \in {"running"} \cup TerminalTypes
        /\ status # "running" => status' = status]_vars

\* C3 as stated: a terminal transition takes effect at most once: on a terminal
\* task result, warning, error and the cached final event are not written
\* again, and no subscriber is ever sent a second terminal event.
C3_TerminalTakesEffectOnce ==
  /\ [][status # "running" =>
          /\ UNCHANGED <<result, warning, error, finalEvent>>
          /\ TerminalEvents(emitted') = TerminalEvents(emitted)]_vars
  /\ [](\A h \in DOMAIN hq : Cardinality(TerminalEvents(hq[h])) <= 1)

Distinct == \A p, q \in DOMAIN items : items[p] = items[q] => p = q
Invoked == {p \in DOMAIN items : st[p] \in {"inflight", "fulfilled", "rejected"}}
Settled == {p \in DOMAIN items : st[p] \in {"fulfilled", "rejected"}}
HasTerminalEvent(type) == \E k \in DOMAIN emitted : emitted[k].type = type

\* C4 as stated: when cancel() is called while runBatch is executing, the
\* executor eventually calls finishCancelled(): the task's status eventually
\* becomes cancelled and a cancelled event is broadcast. (A run in which the
\* owner has ended the task as done or error is not held against the claim.)
C4_CancelLeadsToCancelledStatus ==
  (cancelled /\ rbPc = "await")
    ~> \/ status = "cancelled" /\ HasTerminalEvent("cancelled")
       \/ status \in {"done", "error"}

\* C4 (amended): when cancel() is called while runBatch is executing, runBatch
\* invokes no further operation from then on and eventually returns; no step
\* of runBatch changes the status or broadcasts a terminal event, so the status
\* becomes cancelled only if the owning caller calls finishCancelled().
C4_CancelStopsRunBatch ==
  /\ (cancelled /\ rbPc = "await") ~> (rbPc = "done")
  /\ [][cancelled => Invoked' \subseteq Invoked]_vars
  /\ [][rbVars' # rbVars =>
          /\ UNCHANGED <<status, finalEvent>>
          /\ TerminalEvents(emitted') = TerminalEvents(emitted)]_vars

\* cancel() came while a chunk was in flight, runBatch has returned leaving
\* items untouched, and the task is still running
C4_Witness ==
  /\ cancelled /\ rbPc = "done"
  /\ \E p \in DOMAIN items : st[p] = "pending"
  /\ Settled # {}
  /\ status = "running"

\* C5 as stated: after a cancellation at a chunk boundary, every item of the
\* chunks already completed keeps its real outcome in the result mapping and
\* every item of the remaining chunks has the entry {ok:false, cancelled:true,
\* error:"cancelled"}, the counters counting only the items that ran.
C5_RemainingChunksMarkedCancelled ==
  (rbPc = "done" /\ Distinct /\ chunks # <<>>) =>
    /\ \A p \in Settled :
         /\ items[p] \in DOMAIN results
         /\ ~results[items[p]].cancelled
    /\ \A p \in DOMAIN items :
         st[p] = "pending" =>
           /\ items[p] \in DOMAIN results
           /\ results[items[p]] = CancelledResult
    /\ processed = Cardinality(Settled)

\* C6: at no point of a runBatch call are more than batchSize per-item
\* operations outstanding (invoked and not yet settled).
C6_AtMostBatchSizeOutstanding ==
  Cardinality({p \in DOMAIN items : st[p] = "inflight"}) <= batchSize

\* a full chunk of two in flight
C6_Witness ==
  /\ batchSize = 2
  /\ Cardinality({p \in DOMAIN items : st[p] = "inflight"}) = 2
  /\ Len(items) = 3

CeilDiv(n, b) == (n + b - 1) \div b

\* C7: with no cancellation runBatch dispatches exactly ceil(N/B) chunks, the
\* k-th being the positions (k-1)*B+1 .. min(k*B, N) of the input, so that
\* every position is in exactly one chunk; chunks come one after another.
C7_ChunksPartitionInput ==
  /\ \A k \in DOMAIN chunks :
       chunks[k] = <<(k - 1) * batchSize + 1, Min2(k * batchSize, Len(items))>>
  /\ (rbPc = "done" /\ ~cancelObserved) =>
       /\ Len(chunks) = CeilDiv(Len(items), batchSize)
       /\ \A p \in DOMAIN items :
            Cardinality({k \in DOMAIN chunks : chunks[k][1] <= p /\ p <= chunks[k][2]}) = 1

\* three items in chunks of two: a full chunk and a shorter last one
C7_Witness ==
  /\ rbPc = "done" /\ ~cancelObserved
  /\ Len(items) = 3 /\ batchSize = 2
  /\ chunks = << <<1, 2>>, <<3, 3>> >>

\* the chunk (numbered from 0) that position p belongs to
ChunkIndex(p) == (p - 1) \div batchSize

\* C8: no item of a later chunk is started (operation invoked or cancellation
\* test made) until every item of the earlier chunks has settled or been
\* skipped, the settled ones being recorded on the task.
C8_ChunksSequential ==
  /\ \A p, q \in DOMAIN items :
       (ChunkIndex(q) < ChunkIndex(p) /\ st[p] # "pending")
         => st[q] \in {"fulfilled", "rejected", "skipped"}
  /\ processed = Cardinality(Settled)

\* the second chunk in flight after the first settled, one item each way
C8_Witness ==
  /\ Len(items) = 3 /\ batchSize = 2
  /\ st = <<"rejected", "fulfilled", "inflight">>
  /\ processed = 2

\* the items whose operation failed
Failed == {p \in DOMAIN items : st[p] = "rejected"}

\* C9: with distinct items and no cancellation runBatch returns with every
\* item's operation run, {ok:false, error} stored for exactly the items that
\* failed and {ok:true, data} for the others, and the task at ok = N - |F|,
\* fail = |F|, processed = N.
C9_FailureIsolation ==
  (rbPc = "done" /\ Distinct /\ ~cancelObserved) =>
    /\ Settled = DOMAIN items
    /\ DOMAIN results = {items[p] : p \in DOMAIN items}
    /\ \A p \in DOMAIN items :
         IF p \in Failed
           THEN \E err \in WorkerErrors : results[items[p]] = FailureResult(err)
           ELSE results[items[p]] = SuccessResult(p)
    /\ fail = Cardinality(Failed)
    /\ ok = Len(items) - Cardinality(Failed)
    /\ processed = Len(items)

\* the first item of the first chunk failed; its sibling and the next chunk ran
C9_Witness ==
  /\ rbPc = "done" /\ Distinct /\ ~cancelObserved
  /\ batchSize = 2
  /\ st = <<"rejected", "fulfilled", "fulfilled">>

Skipped == {p \in DOMAIN items : st[p] = "skipped"}

\* C10: an item whose own cancellation test comes out true gets the entry
\* {ok:false, error:"cancelled", cancelled:true}; its operation is never
\* invoked, and the step leaves counters and subscriber queues as they were
\* (no record call, no progress event).
C10_SkippedItemBypassesTask ==
  /\ [][Skipped' # Skipped =>
          /\ \A p \in Skipped' \ Skipped : results'[items[p]] = CancelledResult
          /\ UNCHANGED <<processed, ok, fail, hq, emitted>>]_vars
  /\ [][Skipped \subseteq Skipped']_vars
  /\ [](processed = Cardinality(Settled))
  /\ []((rbPc = "done" /\ Distinct) =>
          \A p \in Skipped : results[items[p]] = CancelledResult)

\* one item of a chunk skipped by its own test while its sibling runs, a
\* subscriber being attached
C10_Witness ==
  /\ \E p, q \in DOMAIN items :
       /\ ChunkIndex(p) = ChunkIndex(q)
       /\ st[p] = "skipped" /\ st[q] = "inflight"
       /\ results[items[p]] = CancelledResult
  /\ queues # <<>>

\* C11: when the cancel flag is set while a chunk is in flight, every item of
\* the chunk whose operation was invoked settles normally: it is stored with
\* its real outcome, never as cancelled, and it is recorded exactly once (one
\* record call, one progress event per settled item). An item still in flight
\* has no entry yet.
C11_InFlightItemsSettleNormally ==
  Distinct =>
    /\ \A p \in lateSettled :
         \/ st[p] = "fulfilled" /\ results[items[p]] = SuccessResult(p)
         \/ /\ st[p] = "rejected"
            /\ \E err \in WorkerErrors : results[items[p]] = FailureResult(err)
    /\ \A p \in DOMAIN items :
         st[p] = "inflight" => items[p] \notin DOMAIN results
    /\ processed = Cardinality(Settled)
    /\ ok = Cardinality(Settled \ Failed)
    /\ fail = Cardinality(Failed)
    /\ RecordCalls = Cardinality(Settled)

\* cancel() came while a chunk of two was in flight; both items have settled
\* since, one well and one badly, and runBatch has returned
C11_Witness ==
  /\ rbPc = "done"
  /\ cancelled
  /\ \E p, q \in lateSettled : st[p] = "fulfilled" /\ st[q] = "rejected"

\* C12: cancel() sets cancelled to true and changes nothing else of the task
\* (status, counters, result, warning, error, final event, subscriber set and
\* queues; no event is broadcast); once true, cancelled is never reset to
\* false by any operation.
C12_CancelOnlySetsFlag ==
  [][/\ cancelled => cancelled'
     /\ cancelled' # cancelled =>
          /\ cancelled' = TRUE
          /\ UNCHANGED <<total, processed, ok, fail, status, warning, result,
                         error, finalEvent, queues, hq, emitted>>]_vars

\* cancel() was called on a running task with a subscriber, and the task has
\* gone on since: an event was recorded and the task finished
C12_Witness ==
  /\ cancelled
  /\ status = "done"
  /\ processed >= 1
  /\ Attached # {}

\* the events taken off the queue of handle h so far (a plain subscriber
\* takes none), and all the events ever appended to that queue
Taken(h) == IF h \in DOMAIN streams THEN streams[h].taken ELSE <<>>
Appended(h) == Taken(h) \o hq[h]

\* this step is a call of publish(), and Published is its event
Publishes == Len(emitted') = Len(emitted) + 1
Published == emitted'[Len(emitted')]

\* C13: for every attached subscriber whose queue is below capacity, each
\* event the task emits is appended to its queue, in emission order, and
\* nothing else ever is: a handle starts with an empty queue, gets exactly the
\* events emitted while it is attached, and none once detached. This holds for
\* each handle whatever happens to another one (drain, overflow, detach).
C13_QueueGetsEventsWhileAttached ==
  [][/\ \A h \in DOMAIN hq :
          Appended(h)' =
            IF Publishes /\ h \in Attached /\ Len(hq[h]) < QueueCapacity
              THEN Append(Appended(h), Published)
              ELSE Appended(h)
     /\ \A h \in DOMAIN hq' \ DOMAIN hq : h \in Attached' /\ Appended(h)' = <<>>
     /\ \A h \in DOMAIN hq : h \in Attached' => h \in Attached]_vars

\* two subscribers attached at once: the queue of the first is full and has
\* missed the last event, the second has it
C13_Witness ==
  \E h, g \in Attached :
    /\ Len(hq[h]) = QueueCapacity
    /\ hq[h][QueueCapacity] # emitted[Len(emitted)]
    /\ hq[g] # <<>>
    /\ hq[g][Len(hq[g])] = emitted[Len(emitted)]

\* C14: a subscriber queue never holds more than QueueCapacity events. A
\* broadcast to a full queue leaves that queue as it is and still does all
\* the rest: the counters or the status are updated and every other attached
\* subscriber gets the event.
C14_QueueBounded ==
  /\ [](\A h \in DOMAIN hq : Len(hq[h]) <= QueueCapacity)
  /\ [][Publishes =>
          /\ \A h \in Attached :
               hq'[h] = IF Len(hq[h]) = QueueCapacity
                          THEN hq[h] ELSE Append(hq[h], Published)
          /\ Published.type = "progress" =>
               processed' = processed + 1 /\ Published.processed = processed'
          /\ Published.type \in TerminalTypes =>
               status' = Published.type /\ finalEvent' = Published]_vars

\* finish() was called with the queue of one subscriber full: the task is
\* done, that queue is as before and another subscriber holds the done event
C14_Witness ==
  /\ status = "done"
  /\ emitted[Len(emitted)].type = "done"
  /\ \E h, g \in Attached :
       /\ Len(hq[h]) = QueueCapacity
       /\ hq[h][QueueCapacity].type = "progress"
       /\ hq[g] # <<>>
       /\ hq[g][Len(hq[g])] = emitted[Len(emitted)]

RECURSIVE SubseqFrom(_, _, _, _)
\* s from position a on is a subsequence of t from position b on: s[a] is
\* matched with its first occurrence t[j], and with it the whole run of
\* events on which s and t then agree
SubseqFrom(s, t, a, b) ==
  IF a > Len(s) THEN TRUE
  ELSE IF \A j \in b..Len(t) : t[j] # s[a] THEN FALSE
  ELSE LET j == CHOOSE j \in b..Len(t) :
                  t[j] = s[a] /\ \A m \in b..(j - 1) : t[m] # s[a]
           run == CHOOSE c \in 1..(Len(s) - a + 1) :
                    /\ a + c > Len(s) \/ j + c > Len(t) \/ s[a + c] # t[j + c]
                    /\ \A m \in 1..(c - 1) : j + m <= Len(t) /\ s[a + m] = t[j + m]
       IN  SubseqFrom(s, t, a + run, j + run)

IsSubseq(s, t) == SubseqFrom(s, t, 1, 1)

\* C15: under any interleaving of emissions and drains, overflow included,
\* what a subscriber has taken from its queue, followed by what is still
\* queued, is an order-preserving subsequence of the emitted events: a drain
\* takes from the head of the queue, in order; an emission adds the new
\* event at the tail or is lost; and it is lost only when the queue holds
\* QueueCapacity events at that moment.
C15_DeliveryInOrder ==
  /\ [](\A h \in DOMAIN hq : IsSubseq(Appended(h), emitted))
  /\ [][\A h \in DOMAIN hq :
          /\ Len(Taken(h)') >= Len(Taken(h))
          /\ Len(Taken(h)') - Len(Taken(h)) <= Len(hq[h])
          /\ Taken(h)' = Taken(h) \o SubSeq(hq[h], 1, Len(Taken(h)') - Len(Taken(h)))
          /\ \/ Appended(h)' = Appended(h)
             \/ Publishes /\ Appended(h)' = Append(Appended(h), Published)
          /\ Publishes /\ h \in Attached /\ Appended(h)' = Appended(h) =>
               Len(hq[h]) = QueueCapacity]_vars

\* a stream whose queue overflowed and was then drained: it has taken
\* QueueCapacity events and got a later one, the one between them is lost
C15_Witness ==
  \E h \in DOMAIN streams :
    /\ Len(streams[h].taken) = QueueCapacity
    /\ hq[h] # <<>>
    /\ Len(emitted) >= QueueCapacity + 2
    /\ hq[h][1] = emitted[QueueCapacity + 2]

\* C16: once a handle is detached no broadcast appends to its queue, and it
\* stays detached; detach of a handle that is not attached (detached before,
\* or not of this task) changes nothing; detach of an attached handle takes
\* that handle alone out of the subscriber set, and every other attached
\* subscriber keeps getting every event.
C16_DetachStopsDelivery ==
  [][/\ \A h \in DOMAIN hq \ Attached : hq'[h] = hq[h] /\ h \notin Attached'
     /\ \A h \in (DOMAIN hq \cup {ForeignHandle}) \ Attached :
          detach(h) => UNCHANGED taskVars
     /\ \A h \in Attached :
          detach(h) => queues' = SelectSeq(queues, LAMBDA g : g # h)
     /\ Publishes =>
          \A g \in Attached : hq'[g] = Append(hq[g], Published)]_vars

\* of two subscribers one was detached after its first event; the other one
\* holds the events emitted since
C16_Witness ==
  \E h \in DOMAIN hq \ Attached, g \in Attached :
    /\ Len(hq[h]) = 1
    /\ Len(hq[g]) >= 2
    /\ hq[g][Len(hq[g])] = emitted[Len(emitted)]
    /\ hq[h][1] # emitted[Len(emitted)]

\* the stream on handle h was cancelled by its consumer
CancelledByConsumer(h) ==
  h \in DOMAIN streams /\ streams[h].state = "cancelled"

\* the output of stream h ends with a terminal event and the stream is closed
ClosedOnTerminal(h) ==
  /\ h \in DOMAIN streams
  /\ streams[h].state = "closed"
  /\ streams[h].out[Len(streams[h].out)].type \in TerminalTypes

\* C17 as stated, for the streams their consumer does not cancel: a stream
\* created on a running task that later reaches a terminal status eventually
\* puts out a terminal event and is closed, the timers firing fairly.
C17_Original ==
  \A h \in 1..MaxSubscribers :
    (/\ h \in DOMAIN streams
     /\ streams[h].startStatus = "running"
     /\ status \in TerminalTypes)
      ~> (CancelledByConsumer(h) \/ ClosedOnTerminal(h))

\* C18 as stated: once the consumer of a stream has cancelled it, the
\* publisher has stopped polling and detached its handle: in every reachable
\* state a stream that is no longer open has its timer cleared and its
\* handle out of the task's subscriber set.
C18_ClosedStreamIsDetached ==
  \A h \in DOMAIN streams :
    streams[h].state # "open" => ~streams[h].timer /\ h \notin Attached

\* C19 as stated: when a drain takes a terminal event from the handle's
\* queue, in that same step the publisher forwards it (it becomes the last
\* event of the output), stops the timer, detaches the handle and leaves the
\* stream closed; what is queued behind the terminal event stays where it
\* is, and a stream whose timer is cleared never changes again.
C19_TerminalDrain ==
  [][\A h \in DOMAIN streams :
       /\ (/\ Len(streams'[h].taken) > Len(streams[h].taken)
           /\ streams'[h].taken[Len(streams'[h].taken)].type \in TerminalTypes)
          => /\ streams'[h].out =
                  streams[h].out \o SubSeq(hq[h], 1, firstTerminal(hq[h]))
             /\ ~streams'[h].timer
             /\ h \notin Attached'
             /\ streams'[h].state # "open"
             /\ hq'[h] = SubSeq(hq[h], firstTerminal(hq[h]) + 1, Len(hq[h]))
       /\ ~streams[h].timer => streams'[h] = streams[h] /\ hq'[h] = hq[h]]_vars

\* C20 as stated, for the streams their consumer does not cancel: a stream
\* opened on a task that is already terminal eventually delivers a terminal
\* event (the cached final event) and is closed.
C20_LateStreamGetsFinalEvent ==
  \A h \in 1..MaxSubscribers :
    (h \in DOMAIN streams /\ streams[h].startStatus \in TerminalTypes)
      ~> (CancelledByConsumer(h) \/ ClosedOnTerminal(h))

\* ---- C21 ----------------------------------------------------------------
\* the reference createTask returned for the id, while it is registered
RegisteredAs(id) ==
  IF \E r \in DOMAIN heap : heap[r].id = id /\ <<id, r>> \notin deleted
  THEN CHOOSE r \in DOMAIN heap : heap[r].id = id
  ELSE NoTask

\* C21: createTask returns a new running task with zero counters and an id
\* no earlier task has, and registers it. From then on, whatever is called
\* on the registry and on the tasks, getTask(id) returns that same task
\* until deleteTask(id) is called; getTask of an id never issued or already
\* deleted returns nothing; deleteTask of an id that is not registered
\* changes nothing; and an id leaves the registry only in a deleteTask call
\* with that id, never because its task ended.
C21_RegistryKeepsTasksUntilDeleted ==
  /\ [](\A id \in TaskIds : getTask(id) = RegisteredAs(id))
  /\ [][/\ Len(heap') > Len(heap) =>
             /\ heap'[Len(heap')].status = "running"
             /\ heap'[Len(heap')].processed = 0
             /\ heap'[Len(heap')].ok = 0
             /\ heap'[Len(heap')].fail = 0
             /\ heap'[Len(heap')].id \notin Issued
             /\ TASKS'[heap'[Len(heap')].id] = Len(heap')
        /\ lookup' # lookup => lookup'.task = RegisteredAs(lookup'.id)
        /\ \A id \in TaskIds :
             /\ <<id, NoTask>> \in deleted' \ deleted
                  => TASKS' = TASKS /\ heap' = heap
             /\ id \in DOMAIN TASKS /\ id \notin DOMAIN TASKS'
                  => <<id, TASKS[id]>> \in deleted' \ deleted
     ]_vars

\* both tasks were created, the first one has ended and is still handed out
\* by getTask, the second one was deleted and looked up afterwards
C21_Witness ==
  /\ Len(heap) = MaxTasks
  /\ heap[1].status = "done" /\ heap[1].processed = 1
  /\ getTask(heap[1].id) = 1
  /\ <<heap[2].id, 2>> \in deleted
  /\ \E id \in TaskIds \ Issued : <<id, NoTask>> \in deleted
  /\ lookup = [id |-> heap[2].id, task |-> NoTask]

\* ---- C23 ----------------------------------------------------------------
\* getStatus was applied to a trailer map whose grpc-status parses to an
\* integer
StatusParsed ==
  /\ grpcStatus # NoStatus
  /\ "grpc-status" \in DOMAIN trailers
  /\ ~parseInt(trailers["grpc-status"]).nan

\* C23: for a trailer map whose grpc-status parses to the integer c,
\* getStatus returns code c, ok exactly when c is 0 or -1, and httpEquiv by
\* the table (0 -> 200, 16 -> 401, 7 -> 403, 8 -> 429, 4 -> 504, 14 -> 503,
\* 502 for every other code); so grpc-status "0" with grpc-message "ok"
\* gives code 0, ok, httpEquiv 200.
C23_StatusFollowsTable ==
  StatusParsed =>
    LET c == parseInt(trailers["grpc-status"]).n
    IN  /\ grpcStatus.code = c
        /\ grpcStatus.ok = (c \in {0, 0 - 1})
        /\ grpcStatus.httpEquiv =
             CASE c = 0 -> 200 [] c = 16 -> 401 [] c = 7 -> 403
               [] c = 8 -> 429 [] c = 4 -> 504 [] c = 14 -> 503
               [] OTHER -> 502

\* ---- C24 ----------------------------------------------------------------
\* C24: for a trailer map without a grpc-status entry, or with one that does
\* not parse to an integer, getStatus returns code -1, ok true and httpEquiv
\* 502; the message is the grpc-message entry, or the empty string when
\* there is none.
C24_MissingStatusIsOk ==
  /\ grpcStatus # NoStatus
  /\ "grpc-status" \in DOMAIN trailers => parseInt(trailers["grpc-status"]).nan
  => /\ grpcStatus.code = 0 - 1
     /\ grpcStatus.ok
     /\ grpcStatus.httpEquiv = 502
     /\ grpcStatus.message =
          IF "grpc-message" \in DOMAIN trailers THEN trailers["grpc-message"]
          ELSE ""

\* getStatus answered for a map with a message and no status
C24_Witness ==
  /\ grpcStatus # NoStatus
  /\ DOMAIN trailers = {"grpc-message"}
  /\ trailers["grpc-message"] = "denied"

\* ---- C22 ----------------------------------------------------------------
\* the operation of token p came back with a gRPC status other than 0 and -1
RemoteFailure(m, p) ==
  /\ items[p] \in DOMAIN m
  /\ m[items[p]].ok
  /\ "grpc_status" \in DOMAIN m[items[p]].data
  /\ m[items[p]].data.grpc_status \notin {0, 0 - 1}

\* C22: when the remote call of an item comes back with a status other than
\* 0 and -1, the item becomes a failure on the task without an exception:
\* the step that settles it adds one to the task's fail counter and leaves
\* the ok counter alone.
C22_RemoteFailureCountsAsFail ==
  [][\A p \in DOMAIN items :
       st[p] = "inflight" /\ st'[p] # "inflight" /\ RemoteFailure(results', p)
         => fail' = fail + 1 /\ ok' = ok]_vars

\* ---- C25 ----------------------------------------------------------------
\* the concatenation of the byte sequences of list
RECURSIVE Flatten(_)
Flatten(list) == IF list = <<>> THEN <<>> ELSE Head(list) \o Flatten(Tail(list))

SentPayloads == [k \in DOMAIN sent |-> sent[k].payload]

\* parseResponse was applied, with a content type that is not the text one
\* and without grpc-status or grpc-message headers, to exactly
\* encodePayload(b1) .. encodePayload(bn)
RoundTrip ==
  /\ response # NotParsed
  /\ ~isText(contentType)
  /\ ~headerGiven(headers.get, StatusName)
  /\ ~headerGiven(headers.get, MessageName)
  /\ body = Flatten([k \in DOMAIN sent |-> encodePayload(sent[k].payload)])

\* C25: encodePayload(b) is the byte 0, then the length of b as four bytes,
\* most significant first, then b; [1,2,3] gives [0,0,0,0,3,1,2,3]. And
\* parseResponse applied to encodePayload(b1) .. encodePayload(bn), one
\* after the other, with a content type that is not the text one, returns
\* the messages b1 .. bn in that order and no trailer.
C25_EncodeThenParse ==
  /\ \A b \in MessagePayloads \cup {sent[k].payload : k \in DOMAIN sent} :
       LET e == encodePayload(b)
       IN  /\ Len(e) = 5 + Len(b)
           /\ e[1] = 0
           /\ \A k \in 2..5 : e[k] \in 0..255
           /\ e[2] * 16777216 + e[3] * 65536 + e[4] * 256 + e[5] = Len(b)
           /\ SubSeq(e, 6, Len(e)) = b
  /\ encodePayload(<<1, 2, 3>>) = <<0, 0, 0, 0, 3, 1, 2, 3>>
  /\ RoundTrip =>
       /\ ~response.threw
       /\ response.messages = SentPayloads
       /\ response.trailers = <<>>

\* a round trip of MaxFrames payloads, the empty one and the long one among
\* them
C25_Witness ==
  /\ RoundTrip
  /\ Len(sent) = MaxFrames
  /\ sent[1].payload = <<>>
  /\ sent[Len(sent)].payload = LongPayload
  /\ response.messages = SentPayloads

\* ---- C26 ----------------------------------------------------------------
\* the bytes the frame loop runs over
Decoded ==
  IF isText(contentType) THEN atob(compact(TextDecode(body))).bytes ELSE body

\* the frames that arrived whole: their number
Whole ==
  Cardinality({k \in DOMAIN sent : Len(wire(SubSeq(sent, 1, k))) <= Len(Decoded)})

IsTrailer(f) == f.flag >= 128
IsCompressed(f) == f.flag < 128 /\ f.flag % 2 = 1
IsMessage(f) == f.flag < 128 /\ f.flag % 2 = 0

\* the trailer map after the trailer frames among list, in order
RECURSIVE TrailersOf(_, _)
TrailersOf(list, t) ==
  IF list = <<>> THEN t
  ELSE TrailersOf(Tail(list),
         IF IsTrailer(Head(list))
         THEN setTrailers(split(TextDecode(Head(list).payload), <<>>, <<>>), t)
         ELSE t)

\* C26: parseResponse goes through the frames from left to right. A frame
\* whose flag has the top bit set is a trailer frame: its key: value lines
\* are put into the trailer map under the lower-cased key. Else, a frame
\* with the compression bit set makes the call fail. Else the payload is
\* appended to the messages. When fewer than 5 bytes, or fewer payload
\* bytes than the header declares, are left, parsing stops without failure
\* and the result holds the frames read whole before.
C26_FramesByFlag ==
  response # NotParsed =>
    LET whole == SubSeq(sent, 1, Whole)
        msgs == SelectSeq(whole, IsMessage)
    IN  /\ response.threw <=> \E k \in 1..Whole : IsCompressed(sent[k])
        /\ ~response.threw =>
             /\ response.messages = [k \in DOMAIN msgs |-> msgs[k].payload]
             /\ response.trailers = fromHeaders(headers, TrailersOf(whole, <<>>))
             /\ \A key \in DOMAIN response.trailers : key = toLowerCase(key)
        /\ /\ ~headers.given
           /\ Whole >= 1
           /\ \A k \in 1..Whole :
                sent[k] = [flag |-> 128, payload |-> TextEncode(StatusAndMessage)]
           => response.trailers =
                [key \in {StatusName, MessageName} |->
                   IF key = StatusName THEN <<"1", "6">> ELSE <<"a", " ", "b">>]

\* a trailer frame was read whole, and the message frame after it lost its
\* last byte: the trailers are returned, the message is not
C26_Witness ==
  /\ response # NotParsed
  /\ ~response.threw
  /\ Len(sent) = 2 /\ Whole = 1
  /\ sent[1] = [flag |-> 128, payload |-> TextEncode(StatusAndMessage)]
  /\ sent[2] = [flag |-> 0, payload |-> <<1, 2, 3>>]
  /\ Len(Decoded) = Len(wire(sent)) - 1
  /\ response.messages = <<>>
  /\ StatusName \in DOMAIN response.trailers

\* ---- C27 ----------------------------------------------------------------
\* C27: getFinalEvent() returns nothing exactly while the status is
\* running. Once the task is terminal it returns an event whose type is the
\* status and whose total, processed, ok and fail are the task's counters
\* at the terminal transition that made it; the event is kept whether or
\* not a subscriber is attached and whether or not its queue had room.
C27_FinalEventCached ==
  /\ []((status = "running") <=> (getFinalEvent = NoEvent))
  /\ [](status # "running" => getFinalEvent.type = status)
  /\ [][/\ (\/ status' # status
               \/ (/\ Len(emitted') > Len(emitted)
                   /\ emitted'[Len(emitted')].type \in TerminalTypes))
           => /\ getFinalEvent' = emitted'[Len(emitted')]
              /\ getFinalEvent'.type = status'
              /\ getFinalEvent'.total = total
              /\ getFinalEvent'.processed = processed
              /\ getFinalEvent'.ok = ok
              /\ getFinalEvent'.fail = fail
        /\ getFinalEvent' # getFinalEvent
           => /\ Len(emitted') > Len(emitted)
              /\ emitted'[Len(emitted')].type \in TerminalTypes
     ]_vars

\* the task ended while the queue of an attached subscriber was full: the
\* terminal event is in no queue, and getFinalEvent() returns it
C27_Witness ==
  /\ getFinalEvent # NoEvent
  /\ getFinalEvent.processed = QueueCapacity
  /\ queues # <<>>
  /\ \A k \in DOMAIN queues :
       /\ Len(hq[queues[k]]) = QueueCapacity
       /\ TerminalEvents(hq[queues[k]]) = {}

\* ---- C28 ----------------------------------------------------------------
\* C28: once the task has broadcast a done, error or cancelled event it
\* broadcasts no progress event any more, however the record() calls of the
\* items in flight interleave with the owner's terminal transition: the
\* terminal event is the last event of the task.
C28_TerminalEventIsLast ==
  \A k \in DOMAIN emitted :
    emitted[k].type \in TerminalTypes
      => \A j \in (k + 1)..Len(emitted) : emitted[j].type # "progress"

\* ---- C29 ----------------------------------------------------------------
\* C29: runBatch writes to its task through record() only. No step of a
\* run, cancelled or not, with or without failing items, changes the task's
\* status, cancelled flag, result, warning, error, final event or set of
\* subscribers, and none broadcasts a terminal event: a step of runBatch
\* either leaves the task as it is or is one record() call.
C29_RunBatchOnlyRecords ==
  [][rbVars' # rbVars =>
       /\ UNCHANGED <<total, status, cancelled, result, warning, error,
                      finalEvent, queues>>
       /\ \/ UNCHANGED taskVars
          \/ /\ processed' = processed + 1
             /\ ok' + fail' = ok + fail + 1
             /\ Len(emitted') = Len(emitted) + 1
             /\ emitted'[Len(emitted')].type = "progress"
             /\ DOMAIN hq' = DOMAIN hq
             /\ \A h \in DOMAIN hq :
                  \/ hq'[h] = hq[h]
                  \/ hq'[h] = Append(hq[h], emitted'[Len(emitted')])
     ]_vars

\* a run that was cancelled has returned, an item failed in it, a
\* subscriber is attached, and the task is as running as before
C29_Witness ==
  /\ rbPc = "done"
  /\ cancelObserved /\ cancelled
  /\ fail >= 1 /\ ok >= 1
  /\ queues # <<>>
  /\ status = "running"
  /\ finalEvent = NoEvent

\* ---- C30 ----------------------------------------------------------------
\* C30: without a batchSize option runBatch takes chunks of 50 items; a
\* batchSize of zero or below is taken as 1, every chunk then being one
\* item. For every collection and every batchSize the call returns,
\* provided every operation it invoked settles. For an empty collection it
\* returns an empty mapping and no step of it touches the task.
C30_WidthDefaultsAndTermination ==
  /\ [](~optBatchSize.given =>
          /\ batchSize = 50
          /\ \A k \in DOMAIN chunks : chunks[k] = <<1, Len(items)>>)
  /\ [](optBatchSize.given /\ optBatchSize.value <= 0 =>
          /\ batchSize = 1
          /\ \A k \in DOMAIN chunks : chunks[k] = <<k, k>>)
  /\ [](items = <<>> /\ rbPc = "done" => results = <<>> /\ chunks = <<>>)
  /\ [][items = <<>> /\ rbVars' # rbVars => UNCHANGED taskVars]_vars
  /\ <>(rbPc = "done")

\* a call with a negative batchSize has returned after one chunk per item
C30_Witness ==
  /\ optBatchSize.given /\ optBatchSize.value < 0
  /\ rbPc = "done"
  /\ Len(items) = MaxItems
  /\ Len(chunks) = MaxItems
  /\ DOMAIN results = {items[p] : p \in DOMAIN items}

\* ---- C31 ----------------------------------------------------------------
\* the task object registry g holds for the id, going by the calls made: the
\* one created with that id while g was the registry asked for, unless
\* deleteTask was called with its id while g was
StoredIn(g, id) ==
  IF \E r \in DOMAIN heap : heap[r].id = id /\ home[r] = g /\ r \notin gone
  THEN CHOOSE r \in DOMAIN heap : heap[r].id = id
  ELSE NoTask

\* C31: after setTaskRegistry(r) the three functions work on r alone. At
\* any time every registry holds exactly the tasks created while it was the
\* one asked for and not deleted while it was, so a task created afterwards
\* is stored in r, and a task of a registry installed before is not removed
\* by a deleteTask call under r; getTask returns what the registry asked
\* for last holds, so it returns a task created under r and never one of a
\* registry installed before; and as long as nobody has called
\* setTaskRegistry, the default registry holds what the global Map of
\* batch.ts holds and getTask returns what the getTask of batch.ts returns.
C31_CallsGoToInstalledRegistry ==
  /\ [](\A g \in Registries, id \in TaskIds : get(g, id) = StoredIn(g, id))
  /\ [][found' # found => found'.task = StoredIn(Installed, found'.id)]_vars
  /\ [](asked = None => tasks[InMemory] = TASKS /\ found = lookup)

\* r1 was installed and a task created in it, then r2 was installed and a
\* task created in it; under r2 the id of r1's task was looked up, to no
\* avail, and then passed to deleteTask; r1 still holds its task and r2
\* holds its own, while the Map of batch.ts lost the first
C31_Witness ==
  /\ Len(heap) = MaxTasks
  /\ asked = "r2"
  /\ home[1] = "r1" /\ home[2] = "r2"
  /\ found = [id |-> heap[1].id, task |-> NoTask]
  /\ lastDelete = [in |-> "r2", id |-> heap[1].id]
  /\ get("r1", heap[1].id) = 1
  /\ get("r2", heap[2].id) = 2
  /\ getTask(heap[1].id) = NoTask

\* the default registry in use: a task created, looked up and found, then
\* deleted, nobody having called setTaskRegistry
C31_DefaultWitness ==
  /\ asked = None
  /\ Len(heap) >= 1
  /\ found = [id |-> heap[1].id, task |-> 1]
  /\ lastDelete = [in |-> InMemory, id |-> heap[1].id]
  /\ get(InMemory, heap[1].id) = NoTask

\* ---- C32 ----------------------------------------------------------------
ProgressEvents(q) == {k \in DOMAIN q : q[k].type = "progress"}
NotCancelledEntries == {k \in DOMAIN results : ~results[k].cancelled}

\* C32: once runBatch has returned, no operation is in flight, every item
\* whose operation was invoked has been recorded exactly once (one progress
\* event and one count for each), and no step records on the task any more;
\* so when the owner ends the task only after runBatch has returned, no
\* progress event follows a terminal event, neither among the events
\* broadcast nor in any subscriber's queue; and the keys being distinct,
\* processed is the number of result entries not marked cancelled.
C32_NothingOutstandingAtReturn ==
  /\ [](rbPc = "done" =>
          /\ \A p \in DOMAIN items : st[p] # "inflight"
          /\ processed = Cardinality(Settled)
          /\ Cardinality(ProgressEvents(emitted)) = Cardinality(Settled)
          /\ processed = Cardinality(NotCancelledEntries))
  /\ [][rbPc = "done" =>
          /\ UNCHANGED <<processed, ok, fail, st, results>>
          /\ ProgressEvents(emitted') = ProgressEvents(emitted)]_vars
  /\ [](\A k \in TerminalEvents(emitted), j \in ProgressEvents(emitted) :
          j < k)
  /\ [](\A h \in DOMAIN hq :
          \A k \in TerminalEvents(hq[h]), j \in ProgressEvents(hq[h]) : j < k)

\* a run in which an item succeeded, one failed and one was skipped under
\* cancellation has returned, and the owner has ended the task after that;
\* the subscriber's queue holds the two progress events and then the
\* terminal one
C32_Witness ==
  /\ rbPc = "done"
  /\ ok = 1 /\ fail = 1
  /\ \E p \in DOMAIN items : st[p] = "skipped"
  /\ status = "cancelled"
  /\ \E h \in DOMAIN hq :
       /\ Len(hq[h]) = 3
       /\ hq[h][1].type = "progress" /\ hq[h][2].type = "progress"
       /\ hq[h][3].type = "cancelled"

\* ---- C33 ----------------------------------------------------------------
KeysOf(seq) == {seq[p] : p \in DOMAIN seq}

\* C33: with a key value occurring several times and no cancellation check
\* coming out true, every occurrence has its operation invoked and is
\* recorded once, so at return processed is the number of items and there
\* is one progress event for each, while the mapping has one entry per
\* distinct value; each occurrence that settles overwrites the entry of its
\* key with its own outcome and touches no other entry, so the entry left
\* is that of the occurrence that settled last.
C33_DuplicateKeysShareAnEntry ==
  /\ [](rbPc = "done" /\ ~cancelObserved =>
          /\ \A p \in DOMAIN items : st[p] \in {"fulfilled", "rejected"}
          /\ processed = Len(items)
          /\ Cardinality(ProgressEvents(emitted)) = Len(items)
          /\ DOMAIN results = KeysOf(items)
          /\ processed >= Cardinality(DOMAIN results))
  /\ [][\A p \in DOMAIN items :
          st[p] = "inflight" /\ st'[p] # "inflight" =>
            /\ processed' = processed + 1
            /\ \/ st'[p] = "fulfilled"
                  /\ results'[items[p]] = SuccessResult(p)
               \/ st'[p] = "rejected"
                  /\ \E err \in WorkerErrors :
                       results'[items[p]] = FailureResult(err)
            /\ \A k \in DOMAIN results \ {items[p]} :
                 results'[k] = results[k]
            /\ \A q \in DOMAIN items \ {p} : st'[q] = st[q]]_vars
  /\ [][results' # results /\ ~cancelObserved' =>
          \E p \in DOMAIN items :
            st[p] = "inflight" /\ st'[p] # "inflight"]_vars

\* three items with one key value, no cancellation: all three were invoked
\* and recorded, the second failing; the mapping has one entry, and it is
\* the outcome of the first occurrence, which settled last
C33_Witness ==
  /\ rbPc = "done" /\ ~cancelObserved
  /\ Len(items) = 3 /\ KeysOf(items) = {1}
  /\ st[2] = "rejected"
  /\ processed = 3 /\ fail = 1
  /\ Cardinality(DOMAIN results) = 1
  /\ results[1] = SuccessResult(1)

====
